---- MODULE Spec2Model ----
(***************************************************************************)
(* Model of the copilot-instructions-templates CLI: the template loader    *)
(* (utils/template-loader.ts), the validator (utils/validator.ts) and the  *)
(* list and validate commands.                                             *)
(*                                                                         *)
(* JavaScript values that the code inspects dynamically (the fields of a   *)
(* frontmatter object returned by yaml.load) are modelled as tagged        *)
(* records [kind, str, items]: undefined/null, a string, or an array of    *)
(* strings.  Document text is a sequence of lines, a line a sequence of    *)
(* tokens (heading markers, whitespace, words, separators).                *)
(***************************************************************************)
EXTENDS Naturals, Sequences, FiniteSets, TLC

\* Bounds of the model.
MaxVariation == 1   \* headings of a generated document that differ from the plain form
MaxFiles == 2       \* files under templates/
MaxDocLines == 4    \* lines of a file text given to extractFrontmatter
MaxItems == 2       \* items of a bracketed list value given to the line parser

VARIABLES
    disk,       \* the files under templates/, in glob order
    command,    \* "none" | "list" | "validate": the command that was started
    pc,         \* position of the running command
    options,    \* the command's options: category, tag, difficulty, strict, files
    templates,  \* list: the Template[] returned by loadTemplates
    filtered,   \* list: the Template[] returned by filterTemplates
    todo,       \* validate: filesToValidate
    next,       \* validate: index in todo of the file the loop handles next
    validCount, \* validate: validCount
    warningCount, \* validate: warningCount
    hasErrors,  \* validate: hasErrors
    output,     \* what the command has printed
    error,      \* the exception the command's catch block received, or "none"
    exitCode,   \* the process exit code, "none" while the command runs
    rec,        \* SpecRecord: the Template handed to validateTemplate
    vstrict,    \* SpecRecord: the strict argument of the last call
    vres,       \* SpecRecord: the ValidationResult of the last call
    vpc,        \* SpecRecord: "ready" | "validated"
    text,       \* SpecText: a document body and what the structure checks said of it
    ext,        \* SpecExtract: a file's text and what extractFrontmatter returned
    load,       \* SpecLoad: one call of loadTemplates and its pending reads
    parse,      \* SpecParse: a frontmatter block and what the line parser made of it
    batch       \* SpecScript: one run of the validate-yaml script

vars == <<disk, command, pc, options, templates, filtered, todo, next, validCount, warningCount,
          hasErrors, output, error, exitCode, rec, vstrict, vres, vpc, text, ext, load, parse, batch>>

-----------------------------------------------------------------------------
(* JavaScript values *)

Undefined == [kind |-> "undefined", str |-> "", items |-> <<>>]
Str(s) == [kind |-> "string", str |-> s, items |-> <<>>]
Arr(xs) == [kind |-> "array", str |-> "", items |-> xs]

\* JS truthiness: undefined, null and "" are falsy; every array is truthy.
Truthy(v) == v.kind = "array" \/ (v.kind = "string" /\ v.str # "")

IsArray(v) == v.kind = "array"

InSeq(xs, x) == \E i \in 1..Len(xs) : xs[i] = x

\* Array.prototype.includes on an array of strings.
ArrayIncludes(xs, s) == \E i \in 1..Len(xs) : xs[i] = s

\* The characters of the strings on which the code does substring search.
Chars(s) ==
    CASE s = "api" -> <<"a", "p", "i">>
      [] s = "api, python" -> <<"a", "p", "i", ",", " ", "p", "y", "t", "h", "o", "n">>
      [] s = "" -> <<>>

\* String.prototype.includes: t occurs in s as a substring.
StringIncludes(s, t) ==
    LET cs == Chars(s)
        ct == Chars(t)
    IN  \E k \in 0..Len(cs) :
            /\ k + Len(ct) <= Len(cs)
            /\ SubSeq(cs, k + 1, k + Len(ct)) = ct

\* Array.prototype.join(sep) on an array of strings.
RECURSIVE Join(_, _)
Join(xs, sep) ==
    IF Len(xs) = 0 THEN ""
    ELSE IF Len(xs) = 1 THEN xs[1]
    ELSE xs[1] \o sep \o Join(Tail(xs), sep)

-----------------------------------------------------------------------------
(* Document text: lines of tokens *)

IsSpace(tok) == tok \in {" ", "\t"}

\* Without the /i flag: no folding, tokens compare as written.
LowerCaseSensitive(tok) == tok

\* Case folding of the /i flag, on the word tokens of the model.
Lower(tok) ==
    CASE tok \in {"Role", "ROLE", "role"} -> "role"
      [] tok \in {"Identity", "identity"} -> "identity"
      [] tok \in {"Context", "context"} -> "context"
      [] tok \in {"Tech", "tech"} -> "tech"
      [] tok \in {"Stack", "stack"} -> "stack"
      [] tok \in {"Project", "PROJECT", "project"} -> "project"
      [] tok \in {"Layout", "layout"} -> "layout"
      [] tok \in {"Coding", "coding"} -> "coding"
      [] tok \in {"Standards", "standards"} -> "standards"
      [] tok \in {"Workflow", "workflow"} -> "workflow"
      [] tok \in {"Commands", "commands"} -> "commands"
      [] OTHER -> tok

\* String.prototype.trim on a line.
RECURSIVE TrimLeft(_)
TrimLeft(line) ==
    IF Len(line) > 0 /\ IsSpace(Head(line)) THEN TrimLeft(Tail(line)) ELSE line

RECURSIVE TrimRight(_)
TrimRight(line) ==
    IF Len(line) > 0 /\ IsSpace(line[Len(line)])
    THEN TrimRight(SubSeq(line, 1, Len(line) - 1))
    ELSE line

Trim(line) == TrimRight(TrimLeft(line))

\* Regular-expression elements: a literal token, \s+ and \s*.
Lit(tok) == [t |-> "lit", c |-> tok]
WsPlus == [t |-> "ws+", c |-> ""]
WsStar == [t |-> "ws*", c |-> ""]

\* The patterns with \s* where they have \s+ after the markers.
REQUIRED_SECTIONS_OptionalSpace ==
    << <<Lit("#"), Lit("#"), WsStar, Lit("Role"), WsStar, Lit("/"), WsStar, Lit("Identity")>>,
       <<Lit("#"), Lit("#"), WsStar, Lit("Context"), WsStar, Lit("&"), WsStar, Lit("Tech"),
         WsPlus, Lit("Stack")>>,
       <<Lit("#"), Lit("#"), WsStar, Lit("Project"), WsPlus, Lit("Layout")>>,
       <<Lit("#"), Lit("#"), WsStar, Lit("Coding"), WsPlus, Lit("Standards")>>,
       <<Lit("#"), Lit("#"), WsStar, Lit("Workflow"), WsStar, Lit("&"), WsStar, Lit("Commands")>> >>

REQUIRED_SECTIONS ==
    << <<Lit("#"), Lit("#"), WsPlus, Lit("Role"), WsStar, Lit("/"), WsStar, Lit("Identity")>>,
       <<Lit("#"), Lit("#"), WsPlus, Lit("Context"), WsStar, Lit("&"), WsStar, Lit("Tech"),
         WsPlus, Lit("Stack")>>,
       <<Lit("#"), Lit("#"), WsPlus, Lit("Project"), WsPlus, Lit("Layout")>>,
       <<Lit("#"), Lit("#"), WsPlus, Lit("Coding"), WsPlus, Lit("Standards")>>,
       <<Lit("#"), Lit("#"), WsPlus, Lit("Workflow"), WsStar, Lit("&"), WsStar, Lit("Commands")>> >>

\* First position at or after j of line that holds no whitespace token.
RECURSIVE SkipSpace(_, _)
SkipSpace(line, j) ==
    IF j <= Len(line) /\ IsSpace(line[j]) THEN SkipSpace(line, j + 1) ELSE j

\* The match of a pattern that ends in $: nothing may follow on the line.
RECURSIVE MatchFromToEnd(_, _, _, _)
MatchFromToEnd(pattern, i, line, j) ==
    IF i > Len(pattern) THEN j > Len(line)
    ELSE CASE pattern[i].t = "lit" ->
                /\ j <= Len(line)
                /\ Lower(line[j]) = Lower(pattern[i].c)
                /\ MatchFromToEnd(pattern, i + 1, line, j + 1)
           [] pattern[i].t = "ws+" ->
                /\ j <= Len(line)
                /\ IsSpace(line[j])
                /\ MatchFromToEnd(pattern, i + 1, line, SkipSpace(line, j))
           [] pattern[i].t = "ws*" ->
                MatchFromToEnd(pattern, i + 1, line, SkipSpace(line, j))

\* pattern.test(line) for an anchored (^), case-insensitive pattern with no
\* end anchor: elements i.. of the pattern match line from position j on.
\* Every \s+ and \s* is followed by a literal that is no whitespace, so the
\* greedy match is the only one.
RECURSIVE MatchFrom(_, _, _, _)
MatchFrom(pattern, i, line, j) ==
    IF i > Len(pattern) THEN TRUE
    ELSE CASE pattern[i].t = "lit" ->
                /\ j <= Len(line)
                /\ Lower(line[j]) = Lower(pattern[i].c)
                /\ MatchFrom(pattern, i + 1, line, j + 1)
           [] pattern[i].t = "ws+" ->
                /\ j <= Len(line)
                /\ IsSpace(line[j])
                /\ MatchFrom(pattern, i + 1, line, SkipSpace(line, j))
           [] pattern[i].t = "ws*" ->
                MatchFrom(pattern, i + 1, line, SkipSpace(line, j))

RegexTest(pattern, line) == MatchFrom(pattern, 1, line, 1)

\* foundSections after the scan of every line.
FoundSections(content) ==
    [index \in 1..Len(REQUIRED_SECTIONS) |->
        \E n \in 1..Len(content) : RegexTest(REQUIRED_SECTIONS[index], Trim(content[n]))]

\* A scan that wants the headings in the order of REQUIRED_SECTIONS: the
\* first line of each after the first line of the one before.
hasValidStructureInOrder(content) ==
    LET found == FoundSections(content)
        first == [index \in 1..Len(REQUIRED_SECTIONS) |->
                     CHOOSE n \in 1..Len(content) :
                         /\ RegexTest(REQUIRED_SECTIONS[index], Trim(content[n]))
                         /\ \A k \in 1..(n - 1) :
                               ~RegexTest(REQUIRED_SECTIONS[index], Trim(content[k]))]
    IN  /\ \A index \in 1..Len(REQUIRED_SECTIONS) : found[index]
        /\ \A index \in 1..(Len(REQUIRED_SECTIONS) - 1) : first[index] < first[index + 1]

hasValidStructure(content) ==
    \A index \in 1..Len(REQUIRED_SECTIONS) : FoundSections(content)[index]

-----------------------------------------------------------------------------
(* utils/validator.ts *)

VALID_CATEGORIES == <<"language", "framework", "role">>
VALID_DIFFICULTIES == <<"beginner", "intermediate", "advanced">>

NoFrontmatterWarning == "No frontmatter found (will be added in Phase 4)"

\* The errors/warnings a check appends: <<msg>> when its condition holds.
When(cond, msg) == IF cond THEN <<msg>> ELSE <<>>

ValidationResult(errors, warnings) ==
    [valid |-> Len(errors) = 0, errors |-> errors, warnings |-> warnings]

\* validateFrontmatter, check by check: what each if/else-if chain appends.
titleErrors(frontmatter) ==
    When(~Truthy(frontmatter.title), "Missing required field: title")

\* The category chain without its range check.
categoryErrorsAnyValue(frontmatter) ==
    When(~Truthy(frontmatter.category), "Missing required field: category")

categoryErrors(frontmatter) ==
    IF ~Truthy(frontmatter.category)
    THEN <<"Missing required field: category">>
    ELSE When(~ArrayIncludes(VALID_CATEGORIES, frontmatter.category.str),
              "Invalid category: " \o frontmatter.category.str
                \o ". Must be one of: " \o Join(VALID_CATEGORIES, ", "))

tagsErrors(frontmatter) ==
    IF ~Truthy(frontmatter.tags)
    THEN <<"Missing required field: tags">>
    ELSE When(~IsArray(frontmatter.tags), "Field \"tags\" must be an array")

\* The tags chain without its last branch: an empty list passes silently.
tagsWarningsNone(frontmatter) == <<>>

tagsWarnings(frontmatter) ==
    When(Truthy(frontmatter.tags) /\ IsArray(frontmatter.tags)
           /\ Len(frontmatter.tags.items) = 0,
         "Field \"tags\" is empty")

difficultyErrorsSkipMissing(frontmatter) ==
    When(Truthy(frontmatter.difficulty)
           /\ ~ArrayIncludes(VALID_DIFFICULTIES, frontmatter.difficulty.str),
         "Invalid difficulty: " \o frontmatter.difficulty.str
           \o ". Must be one of: " \o Join(VALID_DIFFICULTIES, ", "))

difficultyErrors(frontmatter) ==
    IF ~Truthy(frontmatter.difficulty)
    THEN <<"Missing required field: difficulty">>
    ELSE When(~ArrayIncludes(VALID_DIFFICULTIES, frontmatter.difficulty.str),
              "Invalid difficulty: " \o frontmatter.difficulty.str
                \o ". Must be one of: " \o Join(VALID_DIFFICULTIES, ", "))

\* The optional-field checks that look at requires only.
optionalWarningsRequiresOnly(frontmatter) ==
    When(Truthy(frontmatter.requires) /\ ~IsArray(frontmatter.requires),
         "Field \"requires\" should be an array")

optionalWarnings(frontmatter) ==
    When(Truthy(frontmatter.requires) /\ ~IsArray(frontmatter.requires),
         "Field \"requires\" should be an array")
    \o When(Truthy(frontmatter.combinableWith) /\ ~IsArray(frontmatter.combinableWith),
            "Field \"combinableWith\" should be an array")

\* validateFrontmatter that goes on to the field checks when there is no
\* frontmatter, every field reading as undefined.
validateFrontmatterNoEarlyReturn(frontmatter) ==
    ValidationResult(
        titleErrors(frontmatter) \o categoryErrors(frontmatter)
          \o tagsErrors(frontmatter) \o difficultyErrors(frontmatter),
        tagsWarnings(frontmatter) \o optionalWarnings(frontmatter))

\* validateFrontmatter that warns of a missing frontmatter and goes on to
\* the field checks, every field reading as undefined.
validateFrontmatterWarnAndGoOn(frontmatter) ==
    ValidationResult(
        titleErrors(frontmatter) \o categoryErrors(frontmatter)
          \o tagsErrors(frontmatter) \o difficultyErrors(frontmatter),
        When(~frontmatter.present, NoFrontmatterWarning)
          \o tagsWarnings(frontmatter) \o optionalWarnings(frontmatter))

validateFrontmatter(frontmatter) ==
    IF ~frontmatter.present
    THEN [valid |-> TRUE, errors |-> <<>>, warnings |-> <<NoFrontmatterWarning>>]
    ELSE ValidationResult(
             titleErrors(frontmatter) \o categoryErrors(frontmatter)
               \o tagsErrors(frontmatter) \o difficultyErrors(frontmatter),
             tagsWarnings(frontmatter) \o optionalWarnings(frontmatter))

validateStructure(template) ==
    ValidationResult(
        When(~template.hasValidStructure, "Missing one or more required sections"),
        When(~template.hasValidStructure,
             "Required sections: Role/Identity, Context & Tech Stack, Project Layout, Coding Standards, Workflow & Commands"))

\* validateTemplate with strict mode that leaves the warnings where they are.
validateTemplateNoPromotion(template, strict) ==
    LET frontmatterResult == validateFrontmatter(template.frontmatter)
        structureResult == validateStructure(template)
    IN  ValidationResult(frontmatterResult.errors \o structureResult.errors,
                         frontmatterResult.warnings \o structureResult.warnings)

\* validateTemplate with strict mode that overwrites the errors by the warnings.
validateTemplateOverwrite(template, strict) ==
    LET frontmatterResult == validateFrontmatter(template.frontmatter)
        structureResult == validateStructure(template)
        errors == frontmatterResult.errors \o structureResult.errors
        warnings == frontmatterResult.warnings \o structureResult.warnings
    IN  IF strict
        THEN ValidationResult(warnings, <<>>)
        ELSE ValidationResult(errors, warnings)

validateTemplate(template, strict) ==
    LET frontmatterResult == validateFrontmatter(template.frontmatter)
        structureResult == validateStructure(template)
        errors == frontmatterResult.errors \o structureResult.errors
        warnings == frontmatterResult.warnings \o structureResult.warnings
    IN  IF strict
        THEN ValidationResult(errors \o warnings, <<>>)
        ELSE ValidationResult(errors, warnings)

-----------------------------------------------------------------------------
(* utils/template-loader.ts: loadTemplate *)

\* path.basename: the tokens after the last "/".
RECURSIVE Basename(_)
Basename(path) ==
    IF \E i \in 1..Len(path) : path[i] = "/"
    THEN Basename(Tail(path))
    ELSE path

\* String.prototype.replace('.md', ''): drops the first occurrence only.
RECURSIVE ReplaceMd(_)
ReplaceMd(name) ==
    IF Len(name) = 0 THEN <<>>
    ELSE IF Head(name) = ".md" THEN Tail(name)
    ELSE <<Head(name)>> \o ReplaceMd(Tail(name))

\* The outcome of a call: a value, or an exception thrown.
Return(v) == [threw |-> FALSE, value |-> v]
Throw == [threw |-> TRUE, value |-> <<>>]

\* A frontmatter that is undefined or null: no field can be read from it.
NoFrontmatter ==
    [present |-> FALSE, title |-> Undefined, category |-> Undefined, tags |-> Undefined,
     difficulty |-> Undefined, requires |-> Undefined, combinableWith |-> Undefined]

\* yaml.load (js-yaml) on the block's text: throws a YAMLException on text
\* that is not YAML, returns the parsed value otherwise.
yamlLoad(yamlString) ==
    IF yamlString.malformed THEN Throw ELSE Return(yamlString.value)

\* parseFrontmatter without its try/catch.
parseFrontmatterNoCatch(yamlString) == yamlLoad(yamlString)

\* parseFrontmatter: the catch block turns the exception into null.
parseFrontmatter(yamlString) ==
    IF yamlLoad(yamlString).threw
    THEN Return(NoFrontmatter)
    ELSE yamlLoad(yamlString)

\* The block extractFrontmatter hands to parseFrontmatter.  file.frontmatter
\* is what the block says: present is FALSE when there is no block or it
\* parses to null/undefined; file.malformed, that its text is not YAML.
FrontmatterString(file) == [malformed |-> file.malformed, value |-> file.frontmatter]

\* loadTemplate throws when readFile rejects or parseFrontmatter throws.
loadTemplateThrows(file) ==
    ~file.readable \/ parseFrontmatter(FrontmatterString(file)).threw

\* The Template built from a file when loadTemplate returns.
loadTemplate(file) ==
    [path |-> file.path,
     filename |-> Basename(file.path),
     id |-> ReplaceMd(Basename(file.path)),
     frontmatter |-> parseFrontmatter(FrontmatterString(file)).value,
     content |-> file.content,
     hasValidStructure |-> hasValidStructure(file.content)]

\* glob('templates/**/*.md', {ignore: [..., '**/_base-template.md']}).
IsBaseTemplate(path) == Basename(path) = <<"_base-template", ".md">>

\* The glob without its ignore list.
GlobNoIgnore(files) == files

Glob(files) == SelectSeq(files, LAMBDA f : ~IsBaseTemplate(f.path))

Paths(files) == [n \in 1..Len(files) |-> files[n].path]

\* loadTemplates: Promise.all over the loads of the globbed files rejects as
\* soon as one readFile rejects, and resolves to the records in file order.
loadTemplates(files) ==
    LET found == Glob(files)
    IN  IF \E n \in 1..Len(found) : loadTemplateThrows(found[n])
        THEN Throw
        ELSE Return([n \in 1..Len(found) |-> loadTemplate(found[n])])

-----------------------------------------------------------------------------
(* utils/template-loader.ts: filterTemplates *)

\* template.frontmatter.tags.includes(filters.tag): a TypeError when tags is
\* undefined or null, a substring search when it is a string, membership
\* when it is an array.
TagsIncludesThrows(tags) == tags.kind = "undefined"

TagsIncludes(tags, tag) ==
    IF tags.kind = "string" THEN StringIncludes(tags.str, tag.str)
    ELSE ArrayIncludes(tags.items, tag.str)

\* The filter callback reaches the tags.includes call for this template.
ReachesTagTest(template, filters) ==
    /\ template.frontmatter.present
    /\ ~(Truthy(filters.category) /\ template.frontmatter.category # filters.category)
    /\ Truthy(filters.tag)

\* The filter callback's return value, for a template on which it does not throw.
Keeps(template, filters) ==
    /\ template.frontmatter.present
    /\ ~(Truthy(filters.category) /\ template.frontmatter.category # filters.category)
    /\ ~(Truthy(filters.tag) /\ ~TagsIncludes(template.frontmatter.tags, filters.tag))
    /\ ~(Truthy(filters.difficulty)
           /\ template.frontmatter.difficulty # filters.difficulty)

filterTemplates(ts, filters) ==
    IF \E n \in 1..Len(ts) :
           ReachesTagTest(ts[n], filters) /\ TagsIncludesThrows(ts[n].frontmatter.tags)
    THEN Throw
    ELSE Return(SelectSeq(ts, LAMBDA t : Keeps(t, filters)))

-----------------------------------------------------------------------------
(* Inputs: frontmatter objects and document bodies *)

Frontmatter(title, category, tags, difficulty, requires, combinableWith) ==
    [present |-> TRUE, title |-> title, category |-> category, tags |-> tags,
     difficulty |-> difficulty, requires |-> requires, combinableWith |-> combinableWith]

Titles == {Undefined, Str(""), Str("FastAPI")}
Categories == {Undefined, Str("framework"), Str("role"), Str("library")}
TagValues == {Undefined, Str("api, python"), Arr(<<>>), Arr(<<"api", "python">>)}
Difficulties == {Undefined, Str("advanced"), Str("expert")}
OptionalLists == {Undefined, Str("python"), Arr(<<"python">>)}

RecordFrontmatters ==
    {NoFrontmatter} \cup
    {Frontmatter(t, c, g, d, r, w) :
        t \in Titles, c \in Categories, g \in TagValues, d \in Difficulties,
        r \in OptionalLists, w \in {Undefined, Str("nextjs"), Arr(<<"nextjs">>)}}

\* The five headings as the templates write them, and in a loose form
\* (other case, other spacing, surrounding whitespace).
PlainHeading ==
    << <<"#", "#", " ", "Role", " ", "/", " ", "Identity">>,
       <<"#", "#", " ", "Context", " ", "&", " ", "Tech", " ", "Stack">>,
       <<"#", "#", " ", "Project", " ", "Layout">>,
       <<"#", "#", " ", "Coding", " ", "Standards">>,
       <<"#", "#", " ", "Workflow", " ", "&", " ", "Commands">> >>

LooseHeading ==
    << <<" ", "#", "#", "\t", "role", "/", "identity">>,
       <<"#", "#", " ", " ", "context", "&", " ", "tech", "\t", " ", "stack", " ">>,
       <<"\t", "#", "#", " ", "PROJECT", " ", " ", "layout", " ", "x">>,
       <<"#", "#", "\t", "coding", " ", "standards", "\t">>,
       <<" ", " ", "#", "#", " ", "workflow", " ", " ", "&", "commands">> >>

\* Lines that look like the heading but are none: one marker, three markers,
\* no whitespace after the markers.
NearHeading ==
    << <<"#", " ", "Role", " ", "/", " ", "Identity">>,
       <<"#", "#", "#", " ", "Context", " ", "&", " ", "Tech", " ", "Stack">>,
       <<"#", "#", "Project", " ", "Layout">>,
       <<"#", "#", " ", "Coding", "Standards">>,
       <<"x", " ", "#", "#", " ", "Workflow", " ", "&", " ", "Commands">> >>

\* The heading followed by more text on the same line.
PrefixHeading ==
    << <<"#", "#", " ", "Role", " ", "/", " ", "Identity", ":">>,
       <<"#", "#", " ", "Context", " ", "&", " ", "Tech", " ", "Stack", " ", "x">>,
       <<"#", "#", " ", "Project", " ", "Layout", "s", " ", "and", " ", "more">>,
       <<"#", "#", " ", "Coding", " ", "Standards", "-", "x">>,
       <<"#", "#", " ", "Workflow", " ", "&", " ", "Commands", "s">> >>

TextLine == <<"x", " ", "x">>

Variants == {"plain", "loose", "near", "prefix", "none"}

HeadingLines(i, variant) ==
    CASE variant = "plain" -> <<PlainHeading[i], TextLine>>
      [] variant = "loose" -> <<LooseHeading[i]>>
      [] variant = "near" -> <<NearHeading[i], TextLine>>
      [] variant = "prefix" -> <<PrefixHeading[i], TextLine>>
      [] variant = "none" -> <<>>

BodyOf(v) ==
    <<TextLine>> \o HeadingLines(1, v[1]) \o HeadingLines(2, v[2]) \o HeadingLines(3, v[3])
      \o HeadingLines(4, v[4]) \o HeadingLines(5, v[5])

BodyChoices ==
    {v \in [1..5 -> Variants] : Cardinality({i \in 1..5 : v[i] # "plain"}) <= MaxVariation}

Bodies == {BodyOf(v) : v \in BodyChoices}

RecordPath == <<"templates", "/", "frameworks", "/", "fastapi", ".md">>

RecordFiles ==
    {[path |-> RecordPath, readable |-> TRUE, malformed |-> FALSE, frontmatter |-> fm,
      content |-> body] :
        fm \in RecordFrontmatters, body \in Bodies}

\* Catalogs: the files under templates/.  A file is a document that can be
\* read, a file whose read fails, or the base template.
Names == <<"fastapi", "nextjs", "nestjs", "react">>

PathOf(n, base) ==
    IF base THEN <<"templates", "/", Names[n], "/", "_base-template", ".md">>
    ELSE <<"templates", "/", "frameworks", "/", Names[n], ".md">>

FullBody == BodyOf([i \in 1..5 |-> "plain"])
NoLayoutBody == BodyOf([i \in 1..5 |-> IF i = 3 THEN "none" ELSE "plain"])

Document(fm, body) ==
    [base |-> FALSE, readable |-> TRUE, malformed |-> FALSE, frontmatter |-> fm, content |-> body]
Unreadable ==
    [base |-> FALSE, readable |-> FALSE, malformed |-> FALSE, frontmatter |-> NoFrontmatter,
     content |-> <<>>]
BaseTemplate ==
    [base |-> TRUE, readable |-> TRUE, malformed |-> FALSE, frontmatter |-> NoFrontmatter,
     content |-> FullBody]

CompleteFrontmatter ==
    Frontmatter(Str("FastAPI"), Str("framework"), Arr(<<"api", "python">>), Str("advanced"),
                Undefined, Undefined)

CliFrontmatters ==
    {NoFrontmatter, [CompleteFrontmatter EXCEPT !.difficulty = Undefined]} \cup
    {[CompleteFrontmatter EXCEPT !.category = c, !.tags = g] :
        c \in {Str("framework"), Str("role")}, g \in TagValues}

\* A file whose frontmatter block is not YAML: the block was meant to say
\* CompleteFrontmatter, yaml.load throws on it.
MalformedDocument == [Document(CompleteFrontmatter, FullBody) EXCEPT !.malformed = TRUE]

\* Metadata with a category, a difficulty outside the enumerations.
LibraryFrontmatter == [CompleteFrontmatter EXCEPT !.category = Str("library")]
ExpertFrontmatter == [CompleteFrontmatter EXCEPT !.difficulty = Str("expert")]

CliFileKinds ==
    {Document(fm, FullBody) : fm \in CliFrontmatters \cup {LibraryFrontmatter, ExpertFrontmatter}}
      \cup {Document(CompleteFrontmatter, NoLayoutBody), Unreadable, BaseTemplate, MalformedDocument}

\* The metadata shapes filterTemplates distinguishes.
FilterFrontmatters ==
    {NoFrontmatter} \cup
    {[CompleteFrontmatter EXCEPT !.category = c, !.tags = g, !.difficulty = d] :
        c \in {Str("framework"), Str("role")},
        g \in TagValues \cup {Arr(<<"python">>)},
        d \in {Str("advanced"), Str("beginner")}}

FilterFileKinds == {Document(fm, FullBody) : fm \in FilterFrontmatters}

MakeFile(kind, n) ==
    [path |-> PathOf(n, kind.base), readable |-> kind.readable, malformed |-> kind.malformed,
     frontmatter |-> kind.frontmatter, content |-> kind.content]

Catalogs(kinds) ==
    {[n \in 1..Len(ks) |-> MakeFile(ks[n], n)] :
        ks \in UNION {[1..len -> kinds] : len \in 0..MaxFiles}}

ListOptions ==
    [category : {Undefined, Str("framework")},
     tag : {Undefined, Str("api")},
     difficulty : {Undefined, Str("advanced")},
     strict : {FALSE},
     files : {<<>>}]

FilterOptions ==
    [category : {Undefined, Str("framework")},
     tag : {Undefined, Str("api")},
     difficulty : {Undefined, Str("advanced")},
     strict : {FALSE},
     files : {<<>>}]

NoOptions ==
    [category |-> Undefined, tag |-> Undefined, difficulty |-> Undefined,
     strict |-> FALSE, files |-> <<>>]

-----------------------------------------------------------------------------
(* commands/list.ts: listCommand *)

\* A length test that never sees an empty list.
NothingFoundNever(found) == FALSE

\* filtered.length === 0, filesToValidate.length === 0.
NothingFound(found) == Len(found) = 0

Line(kind, file, errors, warnings, counts) ==
    [kind |-> kind, file |-> file, errors |-> errors, warnings |-> warnings,
     counts |-> counts]

Notice(message) == Line(message, <<>>, <<>>, <<>>, <<>>)

\* process.exit(code), or the return that lets the process end with code 0.
Exit(code) ==
    /\ pc' = "done"
    /\ exitCode' = code

\* The catch block: console.error and process.exit(1).
Catch(what) ==
    /\ error' = what
    /\ Exit(1)

\* const templates = await loadTemplates();
ListLoad ==
    /\ pc = "idle"
    /\ command' = "list"
    /\ \E o \in ListOptions : options' = o
    /\ LET r == loadTemplates(disk)
       IN  IF r.threw
           THEN Catch("read") /\ UNCHANGED templates
           ELSE /\ templates' = r.value
                /\ pc' = "list:loaded"
                /\ UNCHANGED <<error, exitCode>>
    /\ UNCHANGED <<disk, filtered, todo, next, validCount, warningCount, hasErrors, output,
                   rec, vstrict, vres, vpc, text, ext, load, parse, batch>>

\* const filtered = filterTemplates(templates, options);
ListFilter ==
    /\ pc = "list:loaded"
    /\ LET r == filterTemplates(templates, options)
       IN  IF r.threw
           THEN Catch("filter") /\ UNCHANGED filtered
           ELSE /\ filtered' = r.value
                /\ pc' = "list:filtered"
                /\ UNCHANGED <<error, exitCode>>
    /\ UNCHANGED <<disk, command, options, templates, todo, next, validCount, warningCount,
                   hasErrors, output, rec, vstrict, vres, vpc, text, ext, load, parse, batch>>

\* template.frontmatter?.category || 'unknown'
CategoryOf(template) ==
    IF template.frontmatter.present /\ Truthy(template.frontmatter.category)
    THEN template.frontmatter.category.str
    ELSE "unknown"

\* The keys of grouped, in insertion order.
RECURSIVE CategoryKeys(_)
CategoryKeys(ts) ==
    IF Len(ts) = 0 THEN <<>>
    ELSE LET rest == CategoryKeys(SubSeq(ts, 1, Len(ts) - 1))
             c == CategoryOf(ts[Len(ts)])
         IN  IF \E k \in 1..Len(rest) : rest[k] = c THEN rest ELSE Append(rest, c)

\* template.frontmatter?.tags?.slice(0, 3).join(', ') throws a TypeError when
\* tags is a string: a string has slice, and what slice returns has no join.
TagsJoinThrows(template) ==
    template.frontmatter.present /\ template.frontmatter.tags.kind = "string"

\* What the display loops print when nothing throws: per category a header,
\* then one entry per template; the entry of a template whose tags make
\* join throw is marked "TypeError".
RECURSIVE ListingOf(_, _)
ListingOf(ts, keys) ==
    IF Len(keys) = 0 THEN <<>>
    ELSE LET group == SelectSeq(ts, LAMBDA t : CategoryOf(t) = Head(keys))
         IN  <<Line("category", <<Head(keys)>>, <<>>, <<>>, <<>>)>>
               \o [n \in 1..Len(group) |->
                     Line(IF TagsJoinThrows(group[n]) THEN "TypeError" ELSE "template",
                          group[n].path, <<>>, <<>>, <<>>)]
               \o ListingOf(ts, Tail(keys))

Throws(lines) == \E n \in 1..Len(lines) : lines[n].kind = "TypeError"

\* The lines printed before the first throw.
RECURSIVE Printed(_)
Printed(lines) ==
    IF Len(lines) = 0 \/ Head(lines).kind = "TypeError" THEN <<>>
    ELSE <<Head(lines)>> \o Printed(Tail(lines))

\* The rest of the try block: the empty notice, or the grouped listing.
ListDisplay ==
    /\ pc = "list:filtered"
    /\ LET listing == ListingOf(filtered, CategoryKeys(filtered))
       IN  IF NothingFound(filtered)
           THEN /\ output' = Append(output, Notice("No templates found matching the criteria."))
                /\ Exit(0)
                /\ UNCHANGED error
           ELSE IF Throws(listing)
           THEN /\ output' = output \o Printed(listing)
                /\ Catch("display")
           ELSE /\ output' = output \o listing
                               \o <<Line("total", <<>>, <<>>, <<>>, <<Len(filtered)>>)>>
                /\ Exit(0)
                /\ UNCHANGED error
    /\ UNCHANGED <<disk, command, options, templates, filtered, todo, next, validCount,
                   warningCount, hasErrors, rec, vstrict, vres, vpc, text, ext, load, parse, batch>>

-----------------------------------------------------------------------------
(* commands/validate.ts: validateCommand *)

ValidateOptions(files) ==
    [category : {Undefined}, tag : {Undefined}, difficulty : {Undefined},
     strict : BOOLEAN,
     files : {<<>>, Paths(files)}]

\* fs.readFile(path): the file of that path under templates/.
FileAt(path) == disk[CHOOSE n \in 1..Len(disk) : disk[n].path = path]

\* The files named on the command line, or the globbed templates.
ValidateStart ==
    /\ pc = "idle"
    /\ command' = "validate"
    /\ \E o \in ValidateOptions(disk) :
          LET filesToValidate == IF Len(o.files) > 0 THEN o.files ELSE Paths(Glob(disk))
          IN  /\ options' = o
              /\ todo' = filesToValidate
              /\ IF NothingFound(filesToValidate)
                 THEN /\ output' = Append(output, Notice("No templates found to validate."))
                      /\ Exit(0)
                 ELSE /\ pc' = "validate:loop"
                      /\ UNCHANGED <<output, exitCode>>
    /\ next' = 1
    /\ validCount' = 0
    /\ warningCount' = 0
    /\ hasErrors' = FALSE
    /\ UNCHANGED <<disk, templates, filtered, error, rec, vstrict, vres, vpc, text, ext, load, parse, batch>>

\* One iteration of the for loop: load, validate, print, count.
ValidateFile ==
    /\ pc = "validate:loop"
    /\ next <= Len(todo)
    /\ LET file == FileAt(todo[next])
       IN  IF loadTemplateThrows(file)
           THEN /\ Catch("read")
                /\ UNCHANGED <<next, validCount, warningCount, hasErrors, output>>
           ELSE LET result == validateTemplate(loadTemplate(file), options.strict)
                IN  /\ output' = Append(output,
                                         Line(IF result.valid THEN "valid" ELSE "invalid",
                                              file.path, result.errors, result.warnings, <<>>))
                    /\ validCount' = IF result.valid THEN validCount + 1 ELSE validCount
                    /\ hasErrors' = (hasErrors \/ ~result.valid)
                    /\ warningCount' = IF Len(result.warnings) > 0
                                        THEN warningCount + 1 ELSE warningCount
                    /\ next' = next + 1
                    /\ UNCHANGED <<pc, error, exitCode>>
    /\ UNCHANGED <<disk, command, options, templates, filtered, todo, rec, vstrict, vres, vpc, text, ext, load, parse, batch>>

\* After the loop: the summary and process.exit.
ValidateSummary ==
    /\ pc = "validate:loop"
    /\ next > Len(todo)
    /\ output' = Append(output,
                         Line("summary", <<>>, <<>>, <<>>,
                              <<Len(todo), validCount, Len(todo) - validCount, warningCount>>))
    /\ Exit(IF hasErrors THEN 1 ELSE 0)
    /\ UNCHANGED <<disk, command, options, templates, filtered, todo, next, validCount,
                   warningCount, hasErrors, error, rec, vstrict, vres, vpc, text, ext, load, parse, batch>>

-----------------------------------------------------------------------------
(* Specifications *)

NoResult == [valid |-> FALSE, errors |-> <<>>, warnings |-> <<>>]

\* The variables of the text checks, at rest.
TextIdle == [pc |-> "off"]
ExtractIdle == [pc |-> "off"]
LoadIdle == [pc |-> "off"]
ParseIdle == [pc |-> "off"]
BatchIdle == [pc |-> "off"]

\* The checks of single functions, all at rest.
OthersIdle == load = LoadIdle /\ parse = ParseIdle /\ batch = BatchIdle

\* The variables of the record check, at rest.
RecordIdle ==
    /\ rec = loadTemplate(MakeFile(Document(NoFrontmatter, FullBody), 1))
    /\ vstrict = FALSE
    /\ vres = NoResult
    /\ vpc = "off"
    /\ text = TextIdle
    /\ ext = ExtractIdle
    /\ OthersIdle

\* A command about to start.
CommandIdle ==
    /\ command = "none"
    /\ pc = "idle"
    /\ options = NoOptions
    /\ templates = <<>>
    /\ filtered = <<>>
    /\ todo = <<>>
    /\ next = 1
    /\ validCount = 0
    /\ warningCount = 0
    /\ hasErrors = FALSE
    /\ output = <<>>
    /\ error = "none"
    /\ exitCode = "none"

\* Spec: one run of list or validate over a catalog.
Init ==
    /\ disk \in Catalogs(CliFileKinds)
    /\ CommandIdle
    /\ RecordIdle

Next ==
    \/ ListLoad
    \/ ListFilter
    \/ ListDisplay
    \/ ValidateStart
    \/ ValidateFile
    \/ ValidateSummary

Spec == Init /\ [][Next]_vars

\* SpecFilter: filterTemplates and the listing over every metadata shape,
\* from the point where loadTemplates has returned.
InitFilter ==
    /\ disk \in Catalogs(FilterFileKinds)
    /\ command = "list"
    /\ pc = "list:loaded"
    /\ options \in FilterOptions
    /\ templates = loadTemplates(disk).value
    /\ filtered = <<>>
    /\ todo = <<>>
    /\ next = 1
    /\ validCount = 0
    /\ warningCount = 0
    /\ hasErrors = FALSE
    /\ output = <<>>
    /\ error = "none"
    /\ exitCode = "none"
    /\ RecordIdle

NextFilter ==
    \/ ListFilter
    \/ ListDisplay

SpecFilter == InitFilter /\ [][NextFilter]_vars

-----------------------------------------------------------------------------
(* SpecRecord: validateTemplate applied to one loaded record, over every
   metadata shape and generated body *)

InitRecord ==
    /\ rec \in {loadTemplate(f) : f \in RecordFiles}
    /\ vstrict = FALSE
    /\ vres = NoResult
    /\ vpc = "ready"
    /\ text = TextIdle
    /\ ext = ExtractIdle
    /\ OthersIdle
    /\ disk = <<>>
    /\ CommandIdle

ValidateRecord ==
    /\ vpc = "ready"
    /\ \E strict \in BOOLEAN :
          /\ vstrict' = strict
          /\ vres' = validateTemplate(rec, strict)
    /\ vpc' = "validated"
    /\ UNCHANGED <<rec, disk, command, pc, options, templates, filtered, todo, next, validCount,
                   warningCount, hasErrors, output, error, exitCode, text, ext, load, parse, batch>>

NextRecord == ValidateRecord

SpecRecord == InitRecord /\ [][NextRecord]_vars

-----------------------------------------------------------------------------
(* Claims about filterTemplates (SpecFilter) *)

\* filterTemplates has been called: it returned filtered, or threw.
FilterCalled == command = "list" /\ pc # "list:loaded" /\ pc # "idle" /\ error # "read"
FilterReturned == FilterCalled /\ error # "filter"

Supplied(v) == v # Undefined

AnySupplied(o) == Supplied(o.category) \/ Supplied(o.tag) \/ Supplied(o.difficulty)

\* The requested tag is an element of the record's list of tags.
TagInList(fm, tag) ==
    fm.tags.kind = "array" /\ \E k \in 1..Len(fm.tags.items) : fm.tags.items[k] = tag.str

\* The record has metadata and matches every criterion that is supplied.
Matches(t, o) ==
    /\ t.frontmatter.present
    /\ Supplied(o.category) => t.frontmatter.category = o.category
    /\ Supplied(o.tag) => TagInList(t.frontmatter, o.tag)
    /\ Supplied(o.difficulty) => t.frontmatter.difficulty = o.difficulty

\* Options o with some of its criteria dropped.
Weaker(o) ==
    {w \in FilterOptions :
        /\ w.category \in {o.category, Undefined}
        /\ w.tag \in {o.tag, Undefined}
        /\ w.difficulty \in {o.difficulty, Undefined}}

\* C1: with at least one criterion supplied, filterTemplates returns exactly
\* the records, in input order, that have metadata and match every supplied
\* criterion; the result of fewer criteria contains it.
C1_FilterIsConjunction ==
    (FilterCalled /\ AnySupplied(options)) =>
        /\ FilterReturned
        /\ filtered = SelectSeq(templates, LAMBDA t : Matches(t, options))
        /\ \A w \in Weaker(options) :
              /\ ~filterTemplates(templates, w).threw
              /\ AnySupplied(w) =>
                    \A n \in 1..Len(filtered) :
                        InSeq(filterTemplates(templates, w).value, filtered[n])

\* C2: with no criterion supplied, filterTemplates returns every input
\* record in input order, records without metadata included.
C2_NoCriterionReturnsAll ==
    (FilterCalled /\ ~AnySupplied(options)) =>
        /\ FilterReturned
        /\ filtered = templates

\* The record passes the criteria other than the tag.
PassesOthers(t, o) ==
    /\ Supplied(o.category) => t.frontmatter.category = o.category
    /\ Supplied(o.difficulty) => t.frontmatter.difficulty = o.difficulty

\* C3: filterTemplates does not raise, and a record with metadata passes the
\* tag criterion exactly when the tag is an element of its tags list:
\* missing tags and a scalar string that contains the tag do not pass.
C3_TagIsListMembership ==
    (FilterCalled /\ Supplied(options.tag)) =>
        /\ FilterReturned
        /\ \A n \in 1..Len(templates) :
              (templates[n].frontmatter.present /\ PassesOthers(templates[n], options)) =>
                  (InSeq(filtered, templates[n])
                     <=> TagInList(templates[n].frontmatter, options.tag))

-----------------------------------------------------------------------------
(* Claims about the list and validate commands (Spec) *)

Done == pc = "done"

AllReadable(files) == \A n \in 1..Len(files) : files[n].readable

\* C4: the list command ends with exit code 0 whatever the metadata of the
\* templates and whatever the filters (stated for the catalogs every file of
\* which can be read).
C4_ListExitsZero ==
    (Done /\ command = "list" /\ AllReadable(disk)) => exitCode = 0

\* The command has printed a status line for the file.
HasStatusLine(path) ==
    \E k \in 1..Len(output) : output[k].kind \in {"valid", "invalid"} /\ output[k].file = path

\* C5: a failing read skips that file only: when the command is done, every
\* readable file of the batch has been loaded (list) or validated (validate).
C5_ReadFailureSkipsOneFile ==
    /\ (Done /\ command = "list") =>
          \A n \in 1..Len(Glob(disk)) :
              Glob(disk)[n].readable =>
                  \E k \in 1..Len(templates) : templates[k].path = Glob(disk)[n].path
    /\ (Done /\ command = "validate") =>
          \A n \in 1..Len(todo) : FileAt(todo[n]).readable => HasStatusLine(todo[n])

\* A validated file was classified invalid.
SomeInvalid == \E k \in 1..Len(output) : output[k].kind = "invalid"

\* A validated file has warnings and no errors.
OnlyWarnings(line) ==
    line.kind \in {"valid", "invalid"} /\ Len(line.errors) = 0 /\ Len(line.warnings) > 0

\* C6: validate exits with 0 when no validated file is classified invalid
\* and with 1 otherwise; without --strict a file with only warnings is not
\* classified invalid.
C6_ValidateExitCode ==
    (Done /\ command = "validate") =>
        /\ exitCode = (IF SomeInvalid THEN 1 ELSE 0)
        /\ ~options.strict =>
              \A k \in 1..Len(output) : OnlyWarnings(output[k]) => output[k].kind = "valid"

-----------------------------------------------------------------------------
(* Claims about validateTemplate (SpecRecord) *)

Validated == vpc = "validated"

\* What validateTemplate returns for the record without strict mode.
NonStrict == validateTemplate(rec, FALSE)

ValidWithWarnings(r) == Len(r.errors) = 0 /\ Len(r.warnings) > 0
Invalid(r) == ~r.valid

\* C7: in strict mode the result's errors are the non-strict errors followed
\* by the non-strict warnings, its warnings are empty, and a record that is
\* valid-with-warnings without strict mode is invalid with it.
C7_StrictPromotesWarnings ==
    (Validated /\ vstrict) =>
        /\ vres.errors = NonStrict.errors \o NonStrict.warnings
        /\ vres.warnings = <<>>
        /\ (ValidWithWarnings(NonStrict) => Invalid(vres))

C7_Witness ==
    /\ Validated /\ vstrict
    /\ ValidWithWarnings(NonStrict)
    /\ Len(vres.errors) > 1
    /\ Invalid(vres)

\* C8: a record invalid without strict mode is invalid with it, and a record
\* valid with strict mode is valid without it.
C8_StrictMonotonic ==
    /\ (Validated /\ vstrict /\ Invalid(NonStrict)) => Invalid(vres)
    /\ (Validated /\ ~vstrict /\ validateTemplate(rec, TRUE).valid) => vres.valid

C8_Witness ==
    /\ Validated /\ vstrict
    /\ Invalid(NonStrict) /\ Len(NonStrict.warnings) = 0
    /\ Invalid(vres)

\* The generated lines that are a heading for section i.
IsHeadingLine(line, i) == line \in {PlainHeading[i], LooseHeading[i], PrefixHeading[i]}

ContainsAllHeadings(content) ==
    \A i \in 1..5 : \E n \in 1..Len(content) : IsHeadingLine(content[n], i)

IsNonEmptyString(v) == v.kind = "string" /\ v.str # ""
AbsentOrList(v) == v.kind \in {"undefined", "array"}

\* Complete, well-typed metadata.
WellTyped(fm) ==
    /\ fm.present
    /\ IsNonEmptyString(fm.title)
    /\ fm.category \in {Str("language"), Str("framework"), Str("role")}
    /\ fm.tags.kind = "array" /\ Len(fm.tags.items) > 0
    /\ fm.difficulty \in {Str("beginner"), Str("intermediate"), Str("advanced")}
    /\ AbsentOrList(fm.requires)
    /\ AbsentOrList(fm.combinableWith)

\* C9: complete, well-typed metadata and all five headings give valid=true
\* with no errors and no warnings, with and without strict mode.
C9_CompleteRecordValid ==
    (Validated /\ WellTyped(rec.frontmatter) /\ ContainsAllHeadings(rec.content)) =>
        /\ vres.valid
        /\ vres.errors = <<>>
        /\ vres.warnings = <<>>

C9_Witness ==
    /\ Validated /\ vstrict
    /\ WellTyped(rec.frontmatter)
    /\ rec.frontmatter.requires.kind = "array"
    /\ ContainsAllHeadings(rec.content)
    /\ \E n \in 1..Len(rec.content) : rec.content[n] = LooseHeading[3]
    /\ vres.valid

RequiredFields == {"title", "category", "tags", "difficulty"}

FieldOf(fm, f) ==
    CASE f = "title" -> fm.title
      [] f = "category" -> fm.category
      [] f = "tags" -> fm.tags
      [] f = "difficulty" -> fm.difficulty
      [] f = "requires" -> fm.requires
      [] f = "combinableWith" -> fm.combinableWith

\* C10: metadata that is present but lacks a required field f makes the
\* record invalid, with the error 'Missing required field: f'.
C10_MissingRequiredField ==
    \A f \in RequiredFields :
        (Validated /\ rec.frontmatter.present /\ FieldOf(rec.frontmatter, f) = Undefined) =>
            /\ Invalid(vres)
            /\ InSeq(vres.errors, "Missing required field: " \o f)

C10_Witness ==
    /\ Validated /\ ~vstrict
    /\ rec.frontmatter.present
    /\ rec.frontmatter.difficulty = Undefined
    /\ rec.frontmatter.title # Undefined
    /\ rec.hasValidStructure
    /\ vres.errors = <<"Missing required field: difficulty">>

\* Metadata that is complete and well typed but for its tags.
WellTypedButTags(fm) ==
    /\ fm.present
    /\ IsNonEmptyString(fm.title)
    /\ fm.category \in {Str("language"), Str("framework"), Str("role")}
    /\ fm.difficulty \in {Str("beginner"), Str("intermediate"), Str("advanced")}
    /\ AbsentOrList(fm.requires)
    /\ AbsentOrList(fm.combinableWith)

EmptyTagsRecord ==
    /\ WellTypedButTags(rec.frontmatter)
    /\ rec.frontmatter.tags = Arr(<<>>)
    /\ ContainsAllHeadings(rec.content)

\* C11: an otherwise valid record whose tags is an empty list is
\* valid-with-warnings without strict mode (no errors, the 'tags is empty'
\* warning) and invalid with it.
C11_EmptyTags ==
    (Validated /\ EmptyTagsRecord) =>
        IF vstrict
        THEN Invalid(vres)
        ELSE /\ vres.valid
             /\ vres.errors = <<>>
             /\ vres.warnings = <<"Field \"tags\" is empty">>

C11_Witness == Validated /\ EmptyTagsRecord /\ ~vstrict /\ ValidWithWarnings(vres)

C11_WitnessStrict ==
    /\ Validated /\ EmptyTagsRecord /\ vstrict
    /\ vres.errors = <<"Field \"tags\" is empty">>

\* C12: a record without frontmatter whose text has all five headings is
\* valid-with-warnings without strict mode: valid, no errors, and the
\* frontmatter-absence warning as its only warning.
C12_NoFrontmatter ==
    (Validated /\ ~vstrict /\ ~rec.frontmatter.present /\ ContainsAllHeadings(rec.content)) =>
        /\ vres.valid
        /\ vres.errors = <<>>
        /\ vres.warnings = <<NoFrontmatterWarning>>

C12_Witness ==
    /\ Validated /\ ~vstrict
    /\ ~rec.frontmatter.present
    /\ ContainsAllHeadings(rec.content)
    /\ \E n \in 1..Len(rec.content) : rec.content[n] = LooseHeading[1]
    /\ Len(vres.warnings) = 1

-----------------------------------------------------------------------------
(* scripts/check-sections: the stand-alone structure check *)

\* The script's REQUIRED_SECTIONS: the names it prints for missing sections.
SECTION_NAMES ==
    <<"## Role / Identity", "## Context & Tech Stack", "## Project Layout",
      "## Coding Standards", "## Workflow & Commands">>

\* The script's patterns with \s+ around the / of the first heading.
SECTION_PATTERNS_SpacedSlash ==
    << <<Lit("#"), Lit("#"), WsPlus, Lit("Role"), WsPlus, Lit("/"), WsPlus, Lit("Identity")>>,
       <<Lit("#"), Lit("#"), WsPlus, Lit("Context"), WsStar, Lit("&"), WsStar, Lit("Tech"),
         WsPlus, Lit("Stack")>>,
       <<Lit("#"), Lit("#"), WsPlus, Lit("Project"), WsPlus, Lit("Layout")>>,
       <<Lit("#"), Lit("#"), WsPlus, Lit("Coding"), WsPlus, Lit("Standards")>>,
       <<Lit("#"), Lit("#"), WsPlus, Lit("Workflow"), WsStar, Lit("&"), WsStar, Lit("Commands")>> >>

SECTION_PATTERNS ==
    << <<Lit("#"), Lit("#"), WsPlus, Lit("Role"), WsStar, Lit("/"), WsStar, Lit("Identity")>>,
       <<Lit("#"), Lit("#"), WsPlus, Lit("Context"), WsStar, Lit("&"), WsStar, Lit("Tech"),
         WsPlus, Lit("Stack")>>,
       <<Lit("#"), Lit("#"), WsPlus, Lit("Project"), WsPlus, Lit("Layout")>>,
       <<Lit("#"), Lit("#"), WsPlus, Lit("Coding"), WsPlus, Lit("Standards")>>,
       <<Lit("#"), Lit("#"), WsPlus, Lit("Workflow"), WsStar, Lit("&"), WsStar, Lit("Commands")>> >>

\* The indices 1..n for which found is FALSE, in order.
RECURSIVE MissingFrom(_, _)
MissingFrom(found, index) ==
    IF index > Len(SECTION_PATTERNS) THEN <<>>
    ELSE (IF found[index] THEN <<>> ELSE <<SECTION_NAMES[index]>>)
           \o MissingFrom(found, index + 1)

\* The script with a report that lists every required section once one is
\* missing.
checkSectionsListsAll(content) ==
    LET foundSections ==
            [index \in 1..Len(SECTION_PATTERNS) |->
                \E n \in 1..Len(content) : RegexTest(SECTION_PATTERNS[index], Trim(content[n]))]
        missing == \E index \in 1..Len(SECTION_PATTERNS) : ~foundSections[index]
    IN  [valid |-> ~missing,
         missingSections |-> IF missing THEN SECTION_NAMES ELSE <<>>]

\* The script's validateTemplate(filePath), on the lines of the file.
checkSections(content) ==
    LET foundSections ==
            [index \in 1..Len(SECTION_PATTERNS) |->
                \E n \in 1..Len(content) : RegexTest(SECTION_PATTERNS[index], Trim(content[n]))]
        missingSections == MissingFrom(foundSections, 1)
    IN  [valid |-> Len(missingSections) = 0, missingSections |-> missingSections]

-----------------------------------------------------------------------------
(* SpecText: the structure checks applied to generated bodies, in every
   order of the headings, with loose forms, repeats and text in between;
   an edit may take one heading out before the checks run *)

Orders == {p \in [1..5 -> 1..5] : \A a, b \in 1..5 : p[a] = p[b] => a = b}

TextChoices ==
    {v \in [1..5 -> {"plain", "loose"}] : Cardinality({i \in 1..5 : v[i] # "plain"}) <= MaxVariation}

\* The headings in order p, each in its form v, heading r (if any) a second
\* time up front.
TextDoc(p, v, r) ==
    (IF r = 0 THEN <<>> ELSE <<LooseHeading[r]>>)
      \o <<TextLine>>
      \o HeadingLines(p[1], v[p[1]]) \o HeadingLines(p[2], v[p[2]]) \o HeadingLines(p[3], v[p[3]])
      \o HeadingLines(p[4], v[p[4]]) \o HeadingLines(p[5], v[p[5]])

\* No repeat, or a second occurrence of the first or of the fourth heading.
Repeats == {0, 1, 4}

TextDocs == {TextDoc(p, v, r) : p \in Orders, v \in TextChoices, r \in Repeats}

NoCheck == [done |-> FALSE, valid |-> FALSE, errors |-> <<>>, warnings |-> <<>>,
            missingSections |-> <<>>]

InitText ==
    /\ text \in {[pc |-> "on", doc |-> d, removed |-> 0, hasValidStructure |-> FALSE,
                  cli |-> NoCheck, script |-> NoCheck] : d \in TextDocs}
    /\ ext = ExtractIdle
    /\ OthersIdle
    /\ rec = loadTemplate(MakeFile(Document(NoFrontmatter, FullBody), 1))
    /\ vstrict = FALSE
    /\ vres = NoResult
    /\ vpc = "off"
    /\ disk = <<>>
    /\ CommandIdle

Unchecked == text.pc = "on" /\ ~text.cli.done /\ ~text.script.done

\* The author deletes every line that is heading i.
RemoveHeading ==
    /\ Unchecked
    /\ text.removed = 0
    /\ \E i \in 1..5 :
          text' = [text EXCEPT !.removed = i,
                               !.doc = SelectSeq(text.doc, LAMBDA line : ~IsHeadingLine(line, i))]
    /\ UNCHANGED <<disk, command, pc, options, templates, filtered, todo, next, validCount,
                   warningCount, hasErrors, output, error, exitCode, rec, vstrict, vres, vpc, ext, load, parse, batch>>

\* The CLI: loadTemplate computes hasValidStructure, validateStructure reports.
CliStructureCheck ==
    /\ text.pc = "on"
    /\ ~text.cli.done
    /\ LET template == [hasValidStructure |-> hasValidStructure(text.doc)]
           result == validateStructure(template)
       IN  text' = [text EXCEPT !.hasValidStructure = template.hasValidStructure,
                                !.cli = [done |-> TRUE, valid |-> result.valid,
                                         errors |-> result.errors, warnings |-> result.warnings,
                                         missingSections |-> <<>>]]
    /\ UNCHANGED <<disk, command, pc, options, templates, filtered, todo, next, validCount,
                   warningCount, hasErrors, output, error, exitCode, rec, vstrict, vres, vpc, ext, load, parse, batch>>

\* The script: validateTemplate(filePath).
ScriptStructureCheck ==
    /\ text.pc = "on"
    /\ ~text.script.done
    /\ LET result == checkSections(text.doc)
       IN  text' = [text EXCEPT !.script = [done |-> TRUE, valid |-> result.valid,
                                            errors |-> <<>>, warnings |-> <<>>,
                                            missingSections |-> result.missingSections]]
    /\ UNCHANGED <<disk, command, pc, options, templates, filtered, todo, next, validCount,
                   warningCount, hasErrors, output, error, exitCode, rec, vstrict, vres, vpc, ext, load, parse, batch>>

NextText ==
    \/ RemoveHeading
    \/ CliStructureCheck
    \/ ScriptStructureCheck

SpecText == InitText /\ [][NextText]_vars

-----------------------------------------------------------------------------
(* Claims about the structure checks (SpecText) *)

CliChecked == text.pc = "on" /\ text.cli.done
ScriptChecked == text.pc = "on" /\ text.script.done

\* One heading was taken out of a body that had all five, and both checks
\* ran on what was left.
OneRemoved == CliChecked /\ ScriptChecked /\ text.removed # 0

\* The headings a message of either check names.
SectionsNamedIn(message) ==
    IF message = "Required sections: Role/Identity, Context & Tech Stack, Project Layout, Coding Standards, Workflow & Commands"
    THEN 1..5
    ELSE {i \in 1..5 : message = SECTION_NAMES[i]}

\* The headings a result names, in its errors, warnings and missing sections.
SectionsNamedBy(result) ==
    LET messages == result.errors \o result.warnings \o result.missingSections
    IN  UNION {SectionsNamedIn(messages[n]) : n \in 1..Len(messages)}

LinesOf(content, i) == {n \in 1..Len(content) : IsHeadingLine(content[n], i)}

\* C14: hasValidStructure is true of every body that has a qualifying line
\* for each of the five headings, in whatever order, case and spacing, with
\* whatever text in between and however often a heading occurs.
C14_AllHeadingsAnyForm ==
    (CliChecked /\ ContainsAllHeadings(text.doc)) => text.hasValidStructure

\* A body with Workflow & Commands before Role / Identity, Coding Standards
\* twice, one heading in loose form only, and text lines in between.
C14_Witness ==
    /\ CliChecked
    /\ ContainsAllHeadings(text.doc)
    /\ \E a \in LinesOf(text.doc, 5), b \in LinesOf(text.doc, 1) : a < b
    /\ Cardinality(LinesOf(text.doc, 4)) = 2
    /\ \E n \in 1..Len(text.doc) : text.doc[n] = LooseHeading[2]
    /\ \E n \in 1..Len(text.doc) : text.doc[n] = TextLine
    /\ text.hasValidStructure

-----------------------------------------------------------------------------
(* Claims about batches (Spec) *)

\* The status lines validate has printed: one per file it has handled.
StatusLines == {n \in 1..Len(output) : output[n].kind \in {"valid", "invalid"}}

CategoryOutOfRange(fm) ==
    /\ fm.present /\ IsNonEmptyString(fm.category)
    /\ fm.category.str \notin {"language", "framework", "role"}

DifficultyOutOfRange(fm) ==
    /\ fm.present /\ IsNonEmptyString(fm.difficulty)
    /\ fm.difficulty.str \notin {"beginner", "intermediate", "advanced"}

IsCompleteFile(file) ==
    /\ file.readable
    /\ ~file.malformed
    /\ file.frontmatter = CompleteFrontmatter
    /\ file.content = FullBody

\* C15: in a validate run a file whose category or difficulty is outside its
\* enumeration gets an invalid status line with the error for that field,
\* nothing is thrown for it, and a complete file of the same batch is still
\* reported valid with no errors and no warnings.
C15_OutOfRangeValue ==
    command = "validate" =>
        /\ error # "none" => ~FileAt(todo[next]).readable
        /\ \A k \in 1..(next - 1) : \E n \in StatusLines : output[n].file = todo[k]
        /\ \A n \in StatusLines :
              LET file == FileAt(output[n].file)
              IN  /\ CategoryOutOfRange(file.frontmatter) =>
                        /\ output[n].kind = "invalid"
                        /\ output[n].errors =
                             <<"Invalid category: library. Must be one of: language, framework, role">>
                  /\ DifficultyOutOfRange(file.frontmatter) =>
                        /\ output[n].kind = "invalid"
                        /\ output[n].errors =
                             <<"Invalid difficulty: expert. Must be one of: beginner, intermediate, advanced">>
                  /\ IsCompleteFile(file) =>
                        /\ output[n].kind = "valid"
                        /\ output[n].errors = <<>>
                        /\ output[n].warnings = <<>>

\* A run that handled a file with category library and then a complete file.
C15_Witness ==
    /\ command = "validate" /\ pc = "done" /\ error = "none" /\ exitCode = 1
    /\ \E n \in StatusLines, k \in StatusLines :
          /\ n < k
          /\ CategoryOutOfRange(FileAt(output[n].file).frontmatter)
          /\ output[n].kind = "invalid"
          /\ IsCompleteFile(FileAt(output[k].file))
          /\ output[k].kind = "valid"

C15_WitnessDifficulty ==
    /\ command = "validate" /\ pc = "done" /\ error = "none"
    /\ \E n \in StatusLines :
          /\ DifficultyOutOfRange(FileAt(output[n].file).frontmatter)
          /\ output[n].kind = "invalid"

-----------------------------------------------------------------------------
(* Claims about list-shaped fields (SpecRecord) *)

ListFields == {"tags", "requires", "combinableWith"}

\* The field holds a scalar where a list is expected.
IsScalar(v) == v.kind = "string" /\ v.str # ""

\* What the validator says when list field f holds a scalar.
ScalarMessage(f) ==
    CASE f = "tags" -> "Field \"tags\" must be an array"
      [] f = "requires" -> "Field \"requires\" should be an array"
      [] f = "combinableWith" -> "Field \"combinableWith\" should be an array"

\* Metadata that is complete and well typed but for list field f.
WellTypedButFor(fm, f) ==
    /\ fm.present
    /\ IsNonEmptyString(fm.title)
    /\ fm.category \in {Str("language"), Str("framework"), Str("role")}
    /\ fm.difficulty \in {Str("beginner"), Str("intermediate"), Str("advanced")}
    /\ f # "tags" => (fm.tags.kind = "array" /\ Len(fm.tags.items) > 0)
    /\ f # "requires" => AbsentOrList(fm.requires)
    /\ f # "combinableWith" => AbsentOrList(fm.combinableWith)

\* In normal mode a scalar in list field f is a warning and no error, and by
\* itself leaves the record valid.
ScalarIsWarning(f) ==
    (Validated /\ ~vstrict /\ rec.frontmatter.present /\ IsScalar(FieldOf(rec.frontmatter, f))) =>
        /\ InSeq(vres.warnings, ScalarMessage(f))
        /\ ~InSeq(vres.errors, ScalarMessage(f))
        /\ (WellTypedButFor(rec.frontmatter, f) /\ ContainsAllHeadings(rec.content)) => vres.valid

\* C16 as stated: a scalar in tags, requires or combinableWith is a warning,
\* not an error, and alone never makes the record invalid in normal mode.
C16_AsStated == \A f \in ListFields : ScalarIsWarning(f)

\* C16: a scalar in requires or combinableWith is a warning, not an error,
\* and alone never makes the record invalid in normal mode; a scalar in tags
\* is the error 'Field "tags" must be an array' and makes the record invalid.
C16_ScalarInListField ==
    /\ ScalarIsWarning("requires")
    /\ ScalarIsWarning("combinableWith")
    /\ (Validated /\ rec.frontmatter.present /\ IsScalar(rec.frontmatter.tags)) =>
          /\ InSeq(vres.errors, ScalarMessage("tags"))
          /\ ~InSeq(vres.warnings, ScalarMessage("tags"))
          /\ Invalid(vres)

C16_Witness ==
    /\ Validated /\ ~vstrict
    /\ WellTypedButFor(rec.frontmatter, "combinableWith")
    /\ IsScalar(rec.frontmatter.combinableWith)
    /\ ContainsAllHeadings(rec.content)
    /\ vres.valid
    /\ vres.warnings = <<"Field \"combinableWith\" should be an array">>

C16_WitnessTags ==
    /\ Validated /\ ~vstrict
    /\ WellTypedButFor(rec.frontmatter, "tags")
    /\ IsScalar(rec.frontmatter.tags)
    /\ ContainsAllHeadings(rec.content)
    /\ vres.errors = <<"Field \"tags\" must be an array">>

-----------------------------------------------------------------------------
(* extractFrontmatter: /^---\s*\n([\s\S]*?)\n---\s*\n/ on the characters of
   the file *)

IsWhitespace(c) == c \in {" ", "\t", "\n"}

AllWhitespace(content, a, b) == \A k \in a..b : IsWhitespace(content[k])

DashesAt(content, s) ==
    /\ s + 2 <= Len(content)
    /\ content[s] = "-" /\ content[s + 1] = "-" /\ content[s + 2] = "-"

\* ---\s*\n from position s: the positions where its \n can stand.
OpeningEnds(content, s) ==
    {e \in (s + 3)..Len(content) :
        /\ DashesAt(content, s)
        /\ AllWhitespace(content, s + 3, e - 1)
        /\ content[e] = "\n"}

\* \n---\s*\n matches from position q.
ClosingAt(content, q) ==
    /\ content[q] = "\n"
    /\ DashesAt(content, q + 1)
    /\ \E f \in (q + 4)..Len(content) :
          AllWhitespace(content, q + 4, f - 1) /\ content[f] = "\n"

\* The positions after the opening's \n at e where the closing can start.
ClosingStarts(content, e) == {q \in (e + 1)..Len(content) : ClosingAt(content, q)}

NoMatch == [found |-> FALSE, body |-> <<>>]

\* The match the backtracking search finds first from position s: the
\* greedy \s* keeps the latest opening end that leads to a match, the lazy
\* group the earliest closing after it.
MatchAt(content, s) ==
    LET ends == {e \in OpeningEnds(content, s) : ClosingStarts(content, e) # {}}
    IN  IF ends = {} THEN NoMatch
        ELSE LET e == CHOOSE x \in ends : \A y \in ends : y <= x
                 q == CHOOSE x \in ClosingStarts(content, e) :
                          \A y \in ClosingStarts(content, e) : x <= y
             IN  [found |-> TRUE, body |-> SubSeq(content, e + 1, q - 1)]

\* The pattern without its ^: the leftmost match anywhere in the text.
extractFrontmatterAnywhere(content) ==
    LET starts == {s \in 1..Len(content) : MatchAt(content, s).found}
    IN  IF starts = {} THEN NoMatch
        ELSE MatchAt(content, CHOOSE s \in starts : \A t \in starts : s <= t)

\* match ? match[1] : null
extractFrontmatter(content) == MatchAt(content, 1)

-----------------------------------------------------------------------------
(* SpecExtract: extractFrontmatter applied to generated file texts *)

\* Lines a file is made of: the delimiter, the delimiter with a trailing
\* blank, with a fourth dash, indented, followed by text; a text line; an
\* empty line.
DocLines ==
    { <<"-", "-", "-">>, <<"-", "-", "-", " ">>, <<"-", "-", "-", "-">>,
      <<" ", "-", "-", "-">>, <<"-", "-", "-", "x">>, <<"x">>, <<>> }

\* The characters of the file: the lines joined by \n, the last line with
\* or without its \n.
RECURSIVE TextOf(_, _)
TextOf(lines, newlineAtEnd) ==
    IF Len(lines) = 0 THEN <<>>
    ELSE IF Len(lines) = 1 THEN lines[1] \o (IF newlineAtEnd THEN <<"\n">> ELSE <<>>)
    ELSE lines[1] \o <<"\n">> \o TextOf(Tail(lines), newlineAtEnd)

ExtractInputs ==
    (UNION {[1..n -> DocLines] : n \in 0..MaxDocLines}) \X BOOLEAN

InitExtract ==
    /\ ext \in {[pc |-> "ready", lines |-> in[1], newlineAtEnd |-> in[2],
                 content |-> TextOf(in[1], in[2]), result |-> NoMatch] : in \in ExtractInputs}
    /\ text = TextIdle
    /\ OthersIdle
    /\ rec = loadTemplate(MakeFile(Document(NoFrontmatter, FullBody), 1))
    /\ vstrict = FALSE
    /\ vres = NoResult
    /\ vpc = "off"
    /\ disk = <<>>
    /\ CommandIdle

ExtractFrontmatter ==
    /\ ext.pc = "ready"
    /\ ext' = [ext EXCEPT !.pc = "extracted", !.result = extractFrontmatter(ext.content)]
    /\ UNCHANGED <<disk, command, pc, options, templates, filtered, todo, next, validCount,
                   warningCount, hasErrors, output, error, exitCode, rec, vstrict, vres, vpc, text, load, parse, batch>>

NextExtract == ExtractFrontmatter

SpecExtract == InitExtract /\ [][NextExtract]_vars

-----------------------------------------------------------------------------
(* Claims about extractFrontmatter (SpecExtract) *)

Extracted == ext.pc = "extracted"

\* A line that holds --- and nothing else (blanks after it aside).
IsDelimiterLine(line) == line \in {<<"-", "-", "-">>, <<"-", "-", "-", " ">>}

\* The file begins with a delimiter line, and after at least one line of
\* body there is a complete delimiter line again.
HasDelimiterPair(lines, newlineAtEnd) ==
    /\ Len(lines) >= 3
    /\ IsDelimiterLine(lines[1])
    /\ \E n \in 3..Len(lines) :
          /\ IsDelimiterLine(lines[n])
          /\ n < Len(lines) \/ newlineAtEnd

\* C17: extractFrontmatter returns a block only for a text that begins with
\* a --- line, then a body, then a closing --- line; for every other
\* text, texts with --- lines further down included, it returns null.
C17_BlockOnlyAtStart ==
    Extracted =>
        /\ ext.result.found => HasDelimiterPair(ext.lines, ext.newlineAtEnd)
        /\ (Len(ext.lines) > 0 /\ ~IsDelimiterLine(ext.lines[1])) => ext.result = NoMatch

\* A text with a delimiter pair on its second and fourth line only.
C17_Witness ==
    /\ Extracted
    /\ ext.lines = << <<"x">>, <<"-", "-", "-">>, <<"x">>, <<"-", "-", "-">> >>
    /\ ext.newlineAtEnd
    /\ ext.result = NoMatch

C17_WitnessFound ==
    /\ Extracted
    /\ ext.lines = << <<"-", "-", "-", " ">>, <<"x">>, <<"-", "-", "-">> >>
    /\ ext.newlineAtEnd
    /\ ext.result = [found |-> TRUE, body |-> <<"x">>]

-----------------------------------------------------------------------------
(* Claims about malformed frontmatter (Spec) *)

\* A readable file whose frontmatter block fails to parse.
IsMalformed(file) == file.readable /\ file.malformed

\* C18: a frontmatter block that fails to parse throws nothing: the only
\* exception a load raises is a failed read; list keeps the file's record in
\* the catalog with its metadata absent; validate prints for it the
\* no-frontmatter warning (promoted to the only error in strict mode).
C18_MalformedFrontmatter ==
    /\ (command = "list" /\ pc # "idle" /\ AllReadable(Glob(disk))) =>
          /\ error # "read"
          /\ \A n \in 1..Len(Glob(disk)) :
                IsMalformed(Glob(disk)[n]) =>
                    /\ templates[n].path = Glob(disk)[n].path
                    /\ templates[n].frontmatter = NoFrontmatter
    /\ command = "validate" =>
          /\ error = "read" => ~FileAt(todo[next]).readable
          /\ \A k \in 1..(next - 1) : HasStatusLine(todo[k])
          /\ \A n \in StatusLines :
                IsMalformed(FileAt(output[n].file)) =>
                    IF options.strict
                    THEN /\ output[n].errors = <<NoFrontmatterWarning>>
                         /\ output[n].warnings = <<>>
                    ELSE /\ output[n].kind = "valid"
                         /\ output[n].errors = <<>>
                         /\ output[n].warnings = <<NoFrontmatterWarning>>

\* list has loaded a catalog that holds a malformed file.
C18_Witness ==
    /\ command = "list" /\ pc # "idle" /\ error # "read"
    /\ \E n \in 1..Len(templates) :
          /\ IsMalformed(FileAt(templates[n].path))
          /\ templates[n].frontmatter = NoFrontmatter

\* validate has gone past a malformed file and printed its warning.
C18_WitnessValidate ==
    /\ command = "validate" /\ ~options.strict /\ pc = "done" /\ exitCode = 0
    /\ \E n \in StatusLines :
          /\ IsMalformed(FileAt(output[n].file))
          /\ output[n].warnings = <<NoFrontmatterWarning>>

-----------------------------------------------------------------------------
(* Claims about discovery (Spec) *)

HasBaseTemplate(files) == \E n \in 1..Len(files) : IsBaseTemplate(files[n].path)

\* C19: _base-template.md is never among the records loadTemplates returns
\* nor among the files validate discovers when called without file
\* arguments; validate prints a status line for it only when it is named in
\* the file arguments.
C19_BaseTemplateExcluded ==
    /\ command = "list" =>
          /\ \A n \in 1..Len(templates) : ~IsBaseTemplate(templates[n].path)
          /\ \A n \in 1..Len(filtered) : ~IsBaseTemplate(filtered[n].path)
    /\ (command = "validate" /\ options.files = <<>>) =>
          \A n \in 1..Len(todo) : ~IsBaseTemplate(todo[n])
    /\ command = "validate" =>
          \A n \in StatusLines :
              IsBaseTemplate(output[n].file) => InSeq(options.files, output[n].file)

\* validate, called without file arguments on a catalog that holds the base
\* template next to another file, is done and has not touched it.
C19_Witness ==
    /\ command = "validate" /\ pc = "done" /\ options.files = <<>>
    /\ HasBaseTemplate(disk)
    /\ Len(todo) = 1
    /\ Cardinality(StatusLines) = 1

\* validate prints a status line for the base template named explicitly.
C19_WitnessOptIn ==
    /\ command = "validate" /\ pc = "done"
    /\ \E n \in StatusLines : IsBaseTemplate(output[n].file) /\ output[n].kind = "valid"

\* list has loaded a catalog that holds the base template.
C19_WitnessList ==
    /\ command = "list" /\ pc = "done" /\ exitCode = 0
    /\ HasBaseTemplate(disk)
    /\ Len(templates) = Len(disk) - 1
    /\ Len(templates) > 0

\* Discovery finds no file: templates/ is missing or empty, or holds nothing
\* but the base template.
NothingDiscovered == Glob(disk) = <<>>

\* C20: when discovery finds no file, list and validate (without file
\* arguments) load and validate nothing, print their notice and nothing
\* else, catch no exception and end with exit code 0.
C20_NothingFound ==
    (Done /\ NothingDiscovered) =>
        /\ command = "list" =>
              /\ templates = <<>>
              /\ output = <<Notice("No templates found matching the criteria.")>>
              /\ error = "none"
              /\ exitCode = 0
        /\ (command = "validate" /\ options.files = <<>>) =>
              /\ todo = <<>>
              /\ StatusLines = {}
              /\ output = <<Notice("No templates found to validate.")>>
              /\ error = "none"
              /\ exitCode = 0

C20_Witness ==
    /\ Done /\ command = "validate" /\ options.files = <<>>
    /\ disk = <<>>
    /\ exitCode = 0
    /\ output = <<Notice("No templates found to validate.")>>

C20_WitnessList ==
    /\ Done /\ command = "list"
    /\ NothingDiscovered
    /\ HasBaseTemplate(disk)
    /\ exitCode = 0
    /\ output = <<Notice("No templates found matching the criteria.")>>

-----------------------------------------------------------------------------
(* SpecLoad: loadTemplates as Promise.all over concurrent loadTemplate calls,
   the reads completing in any order *)

\* File names and directories under templates/: the same name in two
\* directories, and a name with .md inside it (react.mdx.md).
LoadDirs == {"frameworks", "roles"}
LoadNames == { <<"react", ".md">>, <<"react", ".md", "x", ".md">>, <<"fastapi", ".md">> }

LoadPaths == {<<"templates", "/", d, "/">> \o name : d \in LoadDirs, name \in LoadNames}

LoadKinds ==
    {Document(CompleteFrontmatter, FullBody), Document(NoFrontmatter, NoLayoutBody), Unreadable}

LoadFiles ==
    {[path |-> p, readable |-> kind.readable, malformed |-> kind.malformed,
      frontmatter |-> kind.frontmatter, content |-> kind.content] :
        p \in LoadPaths, kind \in LoadKinds}

\* What glob can return: files of pairwise distinct paths, in any order.
LoadCatalogs ==
    {fs \in UNION {[1..len -> LoadFiles] : len \in 0..MaxFiles} :
        \A a, b \in 1..Len(fs) : fs[a].path = fs[b].path => a = b}

\* A slot of the Promise.all result array that is not filled yet.
NoRecord == [path |-> <<>>]

\* A result array filled in the order the loads complete.
SettleInCompletionOrder(results, i, record) ==
    LET free == CHOOSE k \in DOMAIN results :
                    /\ results[k] = NoRecord
                    /\ \A j \in 1..(k - 1) : results[j] # NoRecord
    IN  [results EXCEPT ![free] = record]

\* Promise.all stores the value of promise i at index i.
Settle(results, i, record) == [results EXCEPT ![i] = record]

InitLoad ==
    /\ disk \in LoadCatalogs
    /\ load = [pc |-> "ready", files |-> <<>>, pending |-> {}, results |-> <<>>,
               order |-> <<>>, value |-> <<>>]
    /\ parse = ParseIdle
    /\ batch = BatchIdle
    /\ text = TextIdle
    /\ ext = ExtractIdle
    /\ rec = loadTemplate(MakeFile(Document(NoFrontmatter, FullBody), 1))
    /\ vstrict = FALSE
    /\ vres = NoResult
    /\ vpc = "off"
    /\ CommandIdle

\* glob, then files.map(file => loadTemplate(file)): every read is started.
LoadStart ==
    /\ load.pc = "ready"
    /\ LET files == Glob(disk)
       IN  load' = [load EXCEPT !.pc = "reading",
                                !.files = files,
                                !.pending = 1..Len(files),
                                !.results = [i \in 1..Len(files) |-> NoRecord]]
    /\ UNCHANGED <<disk, command, pc, options, templates, filtered, todo, next, validCount,
                   warningCount, hasErrors, output, error, exitCode, rec, vstrict, vres, vpc,
                   text, ext, parse, batch>>

\* The load of file i settles: its record goes to the result array, or its
\* rejection rejects the Promise.all.
LoadSettles ==
    /\ load.pc = "reading"
    /\ \E i \in load.pending :
          IF loadTemplateThrows(load.files[i])
          THEN load' = [load EXCEPT !.pc = "rejected", !.order = Append(load.order, i)]
          ELSE load' = [load EXCEPT !.pending = load.pending \ {i},
                                    !.order = Append(load.order, i),
                                    !.results = Settle(load.results, i,
                                                       loadTemplate(load.files[i]))]
    /\ UNCHANGED <<disk, command, pc, options, templates, filtered, todo, next, validCount,
                   warningCount, hasErrors, output, error, exitCode, rec, vstrict, vres, vpc,
                   text, ext, parse, batch>>

\* Every load has settled: await Promise.all(...) returns the array.
LoadResolves ==
    /\ load.pc = "reading"
    /\ load.pending = {}
    /\ load' = [load EXCEPT !.pc = "resolved", !.value = load.results]
    /\ UNCHANGED <<disk, command, pc, options, templates, filtered, todo, next, validCount,
                   warningCount, hasErrors, output, error, exitCode, rec, vstrict, vres, vpc,
                   text, ext, parse, batch>>

NextLoad ==
    \/ LoadStart
    \/ LoadSettles
    \/ LoadResolves

SpecLoad == InitLoad /\ [][NextLoad]_vars

-----------------------------------------------------------------------------
(* Claims about loadTemplates (SpecLoad) *)

Resolved == load.pc = "resolved"

EndsInMd(name) == Len(name) > 0 /\ name[Len(name)] = ".md"

\* The file name without its trailing extension, nothing else removed.
StripExtension(name) == SubSeq(name, 1, Len(name) - 1)

\* C21: every record of a catalog load has as id its file name with the
\* trailing .md stripped and nothing else removed, and no two records of
\* the load have the same id.
C21_IdentifierFromName ==
    Resolved =>
        /\ \A i \in 1..Len(load.value) :
              EndsInMd(load.value[i].filename) =>
                  load.value[i].id = StripExtension(load.value[i].filename)
        /\ \A i, j \in 1..Len(load.value) :
              load.value[i].id = load.value[j].id => i = j

\* C27: whatever the order in which the loads settle, the array
\* loadTemplates returns has one record per discovered file, in the order of
\* the discovered files, record i made of file i's path and contents alone.
C27_ResultInFileOrder ==
    Resolved =>
        /\ Len(load.value) = Len(Glob(disk))
        /\ \A i \in 1..Len(load.value) : load.value[i] = loadTemplate(Glob(disk)[i])
        /\ \A i \in 1..Len(load.value) :
              /\ load.value[i].path = Glob(disk)[i].path
              /\ load.value[i].content = Glob(disk)[i].content
              /\ load.value[i].frontmatter = Glob(disk)[i].frontmatter
        /\ Return(load.value) = loadTemplates(disk)

\* The second file's read completed first; the files differ in path and
\* contents.
C27_Witness ==
    /\ Resolved
    /\ Len(load.value) = 2
    /\ load.order = <<2, 1>>
    /\ load.value[1].path = disk[1].path
    /\ load.value[1].content # load.value[2].content
    /\ load.value[1].frontmatter # load.value[2].frontmatter

-----------------------------------------------------------------------------
(* Claims about heading lines (SpecRecord) *)

\* No line of the body qualifies as heading i.
LacksHeading(content, i) == \A n \in 1..Len(content) : ~IsHeadingLine(content[n], i)

HasLine(content, line) == \E n \in 1..Len(content) : content[n] = line

\* C22: a line with one #, with three #, with no whitespace after ##, or
\* with text before the markers marks no section as found: a body whose only
\* line for a heading is such a line has no valid structure, and validation
\* reports the missing sections.
C22_ExactlyTwoMarkers ==
    Validated =>
        \A i \in 1..5 :
            LacksHeading(rec.content, i) =>
                /\ ~rec.hasValidStructure
                /\ InSeq(vres.errors, "Missing one or more required sections")

\* A body whose Project Layout line has no blank after the markers.
C22_Witness ==
    /\ Validated
    /\ HasLine(rec.content, NearHeading[3])
    /\ LacksHeading(rec.content, 3)
    /\ \A i \in {1, 2, 4, 5} : ~LacksHeading(rec.content, i)
    /\ ~rec.hasValidStructure

C22_WitnessOneMarker ==
    Validated /\ HasLine(rec.content, NearHeading[1]) /\ ~rec.hasValidStructure

C22_WitnessThreeMarkers ==
    Validated /\ HasLine(rec.content, NearHeading[2]) /\ ~rec.hasValidStructure

\* Heading i stands in the body only on a line that goes on after the name.
OnlyAsPrefix(content, i) ==
    /\ HasLine(content, PrefixHeading[i])
    /\ ~HasLine(content, PlainHeading[i])
    /\ ~HasLine(content, LooseHeading[i])

\* C30: a line that begins with ## and a heading name and goes on with more
\* text marks the section as found, as the bare heading does: a body with
\* every heading, one of them on such a line only, has a valid structure and
\* no missing-sections error.
C30_PrefixMatch ==
    (Validated /\ ContainsAllHeadings(rec.content)
       /\ \E i \in 1..5 : OnlyAsPrefix(rec.content, i)) =>
        /\ rec.hasValidStructure
        /\ ~InSeq(vres.errors, "Missing one or more required sections")
        /\ vres = validateTemplate([rec EXCEPT !.content = FullBody,
                                               !.hasValidStructure = hasValidStructure(FullBody)],
                                   vstrict)

\* '## Project Layouts and more' is the only Project Layout line.
C30_Witness ==
    /\ Validated
    /\ OnlyAsPrefix(rec.content, 3)
    /\ ContainsAllHeadings(rec.content)
    /\ rec.hasValidStructure
    /\ rec.frontmatter = CompleteFrontmatter
    /\ vres.valid

-----------------------------------------------------------------------------
(* Claims about the messages of a result (SpecRecord) *)

\* The errors validateFrontmatter can push for a field.
FieldErrors ==
    {"Missing required field: " \o f : f \in RequiredFields}
      \cup {"Invalid category: library. Must be one of: language, framework, role",
            "Invalid difficulty: expert. Must be one of: beginner, intermediate, advanced",
            "Field \"tags\" must be an array"}

\* Every message of the result, errors and warnings alike.
Messages(result) == result.errors \o result.warnings

HasFieldError(result) == \E n \in 1..Len(result.errors) : result.errors[n] \in FieldErrors

C28_WitnessPresent ==
    /\ Validated /\ ~vstrict
    /\ rec.frontmatter.present
    /\ HasFieldError(vres)
    /\ Len(vres.errors) >= 3
    /\ ~InSeq(Messages(vres), NoFrontmatterWarning)

-----------------------------------------------------------------------------
(* Claims about the two structure checks together (SpecText) *)

\* The names of the headings for which no line of the body qualifies, in
\* the order of the required sections.
RECURSIVE LackingFrom(_, _)
LackingFrom(content, i) ==
    IF i > 5 THEN <<>>
    ELSE (IF LacksHeading(content, i) THEN <<SECTION_NAMES[i]>> ELSE <<>>)
           \o LackingFrom(content, i + 1)

\* C29: on every body the CLI's hasValidStructure is true exactly when the
\* script's validateTemplate returns no missing section, and the script's
\* missing sections are exactly the headings for which no line qualifies.
C29_CheckersAgree ==
    (CliChecked /\ ScriptChecked) =>
        /\ text.hasValidStructure <=> (text.script.missingSections = <<>>)
        /\ text.hasValidStructure <=> text.script.valid
        /\ text.cli.valid <=> text.script.valid
        /\ text.script.missingSections = LackingFrom(text.doc, 1)

\* Both checks ran on a body in another order, with a loose Role / Identity
\* line, from which Coding Standards was taken out.
C29_Witness ==
    /\ CliChecked /\ ScriptChecked
    /\ text.removed = 4
    /\ HasLine(text.doc, LooseHeading[1])
    /\ ~text.hasValidStructure
    /\ text.script.missingSections = <<"## Coding Standards">>

C29_WitnessValid ==
    /\ CliChecked /\ ScriptChecked
    /\ text.removed = 0
    /\ HasLine(text.doc, LooseHeading[1])
    /\ ~HasLine(text.doc, PlainHeading[1])
    /\ text.hasValidStructure
    /\ text.script.valid

-----------------------------------------------------------------------------
(* Claims about the summary of validate (Spec) *)

ValidLines == {n \in StatusLines : output[n].kind = "valid"}
InvalidLines == {n \in StatusLines : output[n].kind = "invalid"}

\* The aggregate validate printed last: total, valid, invalid (and the
\* number of files with warnings).
Aggregate == output[Len(output)].counts

\* C26: after validate has gone through a list of files, the aggregate it
\* printed has total = files processed, valid = files with no error,
\* invalid = total - valid = files classified invalid, and the exit code is
\* 1 exactly when the invalid count is above 0.
C26_AggregateCounts ==
    (Done /\ command = "validate" /\ Len(todo) > 0) =>
        /\ Len(output) > 0
        /\ output[Len(output)].kind = "summary"
        /\ Aggregate[1] = Len(todo)
        /\ Aggregate[1] = Cardinality(StatusLines)
        /\ Aggregate[2] = Cardinality(ValidLines)
        /\ Aggregate[3] = Aggregate[1] - Aggregate[2]
        /\ Aggregate[3] = Cardinality(InvalidLines)
        /\ exitCode = 1 <=> Cardinality(InvalidLines) > 0

-----------------------------------------------------------------------------
(* scripts/validate-yaml.js: the line parser in the catch block of
   parseFrontmatter, on the characters of the block *)

IsQuote(c) == c \in {"'", "\""}

\* String.prototype.indexOf(c): the first position of c, 0 when there is none
\* (JavaScript counts from 0 and answers -1).
IndexOf(chars, c) ==
    IF \E n \in 1..Len(chars) : chars[n] = c
    THEN CHOOSE n \in 1..Len(chars) : chars[n] = c /\ \A k \in 1..(n - 1) : chars[k] # c
    ELSE 0

\* String.prototype.trim on characters.
RECURSIVE TrimChars(_)
TrimChars(chars) ==
    IF Len(chars) > 0 /\ IsWhitespace(chars[1]) THEN TrimChars(Tail(chars))
    ELSE IF Len(chars) > 0 /\ IsWhitespace(chars[Len(chars)])
    THEN TrimChars(SubSeq(chars, 1, Len(chars) - 1))
    ELSE chars

\* replace(/['"]/g, ''): every quote character goes.
StripQuotes(chars) == SelectSeq(chars, LAMBDA c : ~IsQuote(c))

\* String.prototype.split(','): the pieces between the commas; one piece,
\* the empty string, for the empty string.
RECURSIVE SplitComma(_)
SplitComma(chars) ==
    LET at == IndexOf(chars, ",")
    IN  IF at = 0 THEN <<chars>>
        ELSE <<SubSeq(chars, 1, at - 1)>> \o SplitComma(SubSeq(chars, at + 1, Len(chars)))

\* value.slice(1, -1)
SliceInner(chars) == SubSeq(chars, 2, Len(chars) - 1)

StringValue(chars) == [kind |-> "string", chars |-> chars, items |-> <<>>]
ListValue(items) == [kind |-> "array", chars |-> <<>>, items |-> items]

\* The body of the for loop for one line: nothing for a line without colon,
\* else the key and the value it stores.
ParseLine(line) ==
    LET colonIndex == IndexOf(line, ":")
        key == TrimChars(SubSeq(line, 1, colonIndex - 1))
        value == TrimChars(SubSeq(line, colonIndex + 1, Len(line)))
        pieces == SplitComma(SliceInner(value))
    IN  IF colonIndex = 0 THEN [skip |-> TRUE, key |-> <<>>, value |-> StringValue(<<>>)]
        ELSE [skip |-> FALSE,
              key |-> key,
              value |-> IF Len(value) > 0 /\ value[1] = "["
                        THEN ListValue([n \in 1..Len(pieces) |->
                                           StripQuotes(TrimChars(pieces[n]))])
                        ELSE StringValue(StripQuotes(value))]

\* data[key] = value: a new key is added last, a known key keeps its place.
SetKey(data, key, value) ==
    IF \E n \in 1..Len(data) : data[n].key = key
    THEN [n \in 1..Len(data) |->
             IF data[n].key = key THEN [key |-> key, value |-> value] ELSE data[n]]
    ELSE Append(data, [key |-> key, value |-> value])

\* The loop over yamlString.split('\n').
RECURSIVE ParseLines(_, _)
ParseLines(lines, data) ==
    IF Len(lines) = 0 THEN data
    ELSE LET entry == ParseLine(Head(lines))
         IN  ParseLines(Tail(lines),
                        IF entry.skip THEN data ELSE SetKey(data, entry.key, entry.value))

-----------------------------------------------------------------------------
(* SpecParse: the line parser applied to generated frontmatter blocks.  A
   block is written down from what its author means (keys, scalar values,
   lists of items) and the parser is given the characters *)

Pad(pad) == IF pad THEN <<" ">> ELSE <<>>
Quote(q) == IF q = "" THEN <<>> ELSE <<q>>

\* A scalar or a list item as written: the text, in quotes or not, with
\* blanks around it or not.
Written(v) == Pad(v.pad) \o Quote(v.quote) \o v.inner \o Quote(v.quote) \o Pad(v.pad)

Scalar(inner, quote, pad) == [inner |-> inner, quote |-> quote, pad |-> pad]

\* Scalar values: plain, quoted and padded, with a colon inside, with a quote
\* character inside quotes, with a quote character inside a plain value.
ScalarForms ==
    {Scalar(<<"a">>, "", FALSE), Scalar(<<"a", " ", "b">>, "\"", TRUE),
     Scalar(<<"a", ":", "b">>, "", TRUE), Scalar(<<"a", "'", "b">>, "\"", FALSE),
     Scalar(<<"a", "\"", "b">>, "", FALSE)}

ItemForms ==
    {Scalar(<<"a">>, "\"", FALSE), Scalar(<<"b">>, "", FALSE), Scalar(<<"c">>, "'", TRUE)}

ListForms == UNION {[1..n -> ItemForms] : n \in 0..MaxItems}

\* [item, item, ...] as written.
RECURSIVE WrittenItems(_)
WrittenItems(items) ==
    IF Len(items) = 0 THEN <<>>
    ELSE IF Len(items) = 1 THEN Written(items[1])
    ELSE Written(items[1]) \o <<",">> \o WrittenItems(Tail(items))

KeyForms == {[name |-> <<"k">>, pad |-> FALSE], [name |-> <<"k">>, pad |-> TRUE]}

ScalarLine(key, v) ==
    [colon |-> TRUE, key |-> key, shape |-> "scalar", scalar |-> v, items |-> <<>>]
ListLine(key, items) ==
    [colon |-> TRUE, key |-> key, shape |-> "list", scalar |-> Scalar(<<>>, "", FALSE),
     items |-> items]
NoColonLine ==
    [colon |-> FALSE, key |-> [name |-> <<"x", " ", "y">>, pad |-> FALSE], shape |-> "scalar",
     scalar |-> Scalar(<<>>, "", FALSE), items |-> <<>>]

\* The characters of a line.
WrittenLine(line) ==
    Pad(line.key.pad) \o line.key.name \o Pad(line.key.pad)
      \o (IF ~line.colon THEN <<>>
          ELSE <<":">> \o (IF line.shape = "scalar" THEN <<" ">> \o Written(line.scalar)
                           ELSE <<" ", "[">> \o WrittenItems(line.items) \o <<"]">>))

BlockLines ==
    {ScalarLine(k, v) : k \in KeyForms, v \in ScalarForms}
      \cup {ListLine(k, items) : k \in KeyForms, items \in ListForms}

\* Lines that go with another line: one without colon, one for another key,
\* one that sets key k again.
ExtraLines ==
    {NoColonLine,
     ScalarLine([name |-> <<"t">>, pad |-> FALSE], Scalar(<<"b">>, "", FALSE)),
     ScalarLine([name |-> <<"k">>, pad |-> FALSE], Scalar(<<"b">>, "", FALSE))}

Blocks ==
    {<<l>> : l \in BlockLines \cup ExtraLines}
      \cup {<<l, m>> : l \in BlockLines, m \in ExtraLines}
      \cup {<<m, l>> : l \in BlockLines, m \in ExtraLines}

InitParse ==
    /\ parse \in {[pc |-> "ready", block |-> b,
                   lines |-> [n \in 1..Len(b) |-> WrittenLine(b[n])],
                   data |-> <<>>] : b \in Blocks}
    /\ load = LoadIdle
    /\ batch = BatchIdle
    /\ text = TextIdle
    /\ ext = ExtractIdle
    /\ rec = loadTemplate(MakeFile(Document(NoFrontmatter, FullBody), 1))
    /\ vstrict = FALSE
    /\ vres = NoResult
    /\ vpc = "off"
    /\ disk = <<>>
    /\ CommandIdle

\* The catch block of parseFrontmatter: the loop over the lines, return data.
FallbackParse ==
    /\ parse.pc = "ready"
    /\ parse' = [parse EXCEPT !.pc = "parsed", !.data = ParseLines(parse.lines, <<>>)]
    /\ UNCHANGED <<disk, command, pc, options, templates, filtered, todo, next, validCount,
                   warningCount, hasErrors, output, error, exitCode, rec, vstrict, vres, vpc,
                   text, ext, load, batch>>

NextParse == FallbackParse

SpecParse == InitParse /\ [][NextParse]_vars

-----------------------------------------------------------------------------
(* Claims about the line parser (SpecParse) *)

Parsed == parse.pc = "parsed"

HasKey(data, name) == \E n \in 1..Len(data) : data[n].key = name

ValueOf(data, name) == data[CHOOSE n \in 1..Len(data) : data[n].key = name].value

\* Line n of the block sets a key that no later line sets again.
SetsKey(block, n) ==
    /\ block[n].colon
    /\ \A m \in (n + 1)..Len(block) : ~(block[m].colon /\ block[m].key.name = block[n].key.name)

\* C23: the parser splits a line at its first colon; the key is the trimmed
\* left side, the value the trimmed right side without its surrounding
\* quotes, colons and quote characters inside it kept; a line without colon
\* adds no key.
C23_FirstColonSplit ==
    Parsed =>
        /\ \A n \in 1..Len(parse.block) :
              (SetsKey(parse.block, n) /\ parse.block[n].shape = "scalar") =>
                  /\ HasKey(parse.data, parse.block[n].key.name)
                  /\ ValueOf(parse.data, parse.block[n].key.name)
                       = StringValue(parse.block[n].scalar.inner)
        /\ \A e \in 1..Len(parse.data) :
              \E n \in 1..Len(parse.block) :
                  parse.block[n].colon /\ parse.block[n].key.name = parse.data[e].key

\* What the items of a list line say, in order.
ItemsOf(line) == [i \in 1..Len(line.items) |-> line.items[i].inner]

\* C24: a bracketed, comma-separated value of n >= 0 items is parsed into
\* the ordered list of exactly those n items, trimmed and without quotes;
\* [] gives a list of length 0.
C24_ListRoundTrip ==
    Parsed =>
        \A n \in 1..Len(parse.block) :
            (SetsKey(parse.block, n) /\ parse.block[n].shape = "list") =>
                /\ HasKey(parse.data, parse.block[n].key.name)
                /\ ValueOf(parse.data, parse.block[n].key.name)
                     = ListValue(ItemsOf(parse.block[n]))

-----------------------------------------------------------------------------
(* SpecScript: scripts/validate-yaml.js, main and its validateFrontmatter *)

\* A file as the script sees it: block says what extractFrontmatter and
\* parseFrontmatter make of its text: "none" (no block), "object" (a
\* mapping with the fields), "null" (the block parses to null or undefined:
\* blank or comments only), "scalar" (the block parses to a string).
ScriptFile(base, readable, block, fields) ==
    [base |-> base, readable |-> readable, block |-> block, fields |-> fields]

ScriptKinds ==
    {ScriptFile(FALSE, TRUE, "object", CompleteFrontmatter),
     ScriptFile(FALSE, TRUE, "object", [CompleteFrontmatter EXCEPT !.tags = Arr(<<>>)]),
     ScriptFile(FALSE, TRUE, "object", [CompleteFrontmatter EXCEPT !.title = Undefined]),
     ScriptFile(FALSE, TRUE, "none", NoFrontmatter),
     ScriptFile(FALSE, TRUE, "null", NoFrontmatter),
     ScriptFile(FALSE, TRUE, "scalar", NoFrontmatter),
     ScriptFile(FALSE, FALSE, "none", NoFrontmatter),
     ScriptFile(TRUE, TRUE, "none", NoFrontmatter)}

ScriptCatalogs ==
    {[n \in 1..Len(ks) |-> [path |-> PathOf(n, ks[n].base), base |-> ks[n].base,
                             readable |-> ks[n].readable, block |-> ks[n].block,
                             fields |-> ks[n].fields]] :
        ks \in UNION {[1..len -> ScriptKinds] : len \in 0..MaxFiles}}

\* The script's validateFrontmatter(filePath, frontmatter): reading a
\* property of null or undefined throws a TypeError, of a string gives
\* undefined.
scriptValidateFrontmatter(block, frontmatter) ==
    IF block = "null" THEN Throw
    ELSE Return([errors |-> titleErrors(frontmatter) \o categoryErrors(frontmatter)
                              \o tagsErrors(frontmatter) \o difficultyErrors(frontmatter),
                 warnings |-> tagsWarnings(frontmatter) \o optionalWarnings(frontmatter)])

InitScript ==
    /\ batch \in {[pc |-> "start", files |-> c, next |-> 1, hasErrors |-> FALSE,
                   filesWithFrontmatter |-> 0, filesWithoutFrontmatter |-> 0,
                   output |-> <<>>, exitCode |-> "none", threw |-> FALSE] :
                      c \in ScriptCatalogs}
    /\ load = LoadIdle
    /\ parse = ParseIdle
    /\ text = TextIdle
    /\ ext = ExtractIdle
    /\ rec = loadTemplate(MakeFile(Document(NoFrontmatter, FullBody), 1))
    /\ vstrict = FALSE
    /\ vres = NoResult
    /\ vpc = "off"
    /\ disk = <<>>
    /\ CommandIdle

ScriptUnchanged ==
    UNCHANGED <<disk, command, pc, options, templates, filtered, todo, next, validCount,
                warningCount, hasErrors, output, error, exitCode, rec, vstrict, vres, vpc,
                text, ext, load, parse>>

\* A status line of the script.
ScriptLine(kind, file, errors, warnings) ==
    [kind |-> kind, file |-> file, errors |-> errors, warnings |-> warnings]

\* main up to the loop: the glob (which does not ignore the base template)
\* and the exit when it finds nothing.
ScriptStart ==
    /\ batch.pc = "start"
    /\ IF Len(batch.files) = 0
       THEN batch' = [batch EXCEPT !.pc = "done", !.exitCode = 0,
                                   !.output = <<ScriptLine("none found", <<>>, <<>>, <<>>)>>]
       ELSE batch' = [batch EXCEPT !.pc = "loop"]
    /\ ScriptUnchanged

\* One iteration of the for loop.  An exception leaves main for the
\* main().catch handler: process.exit(1).
ScriptIteration ==
    /\ batch.pc = "loop"
    /\ batch.next <= Len(batch.files)
    /\ LET file == batch.files[batch.next]
           validation == scriptValidateFrontmatter(file.block, file.fields)
           rejected == [batch EXCEPT !.pc = "done", !.exitCode = 1, !.threw = TRUE]
       IN  IF file.base
           THEN batch' = [batch EXCEPT !.next = batch.next + 1,
                                       !.output = Append(batch.output,
                                                         ScriptLine("skipped", file.path, <<>>, <<>>))]
           ELSE IF ~file.readable
           THEN batch' = rejected
           ELSE IF file.block = "none"
           THEN batch' = [batch EXCEPT !.next = batch.next + 1,
                                       !.filesWithoutFrontmatter = batch.filesWithoutFrontmatter + 1,
                                       !.output = Append(batch.output,
                                                         ScriptLine("no frontmatter", file.path,
                                                                    <<>>, <<>>))]
           ELSE IF validation.threw
           THEN batch' = [rejected EXCEPT
                              !.filesWithFrontmatter = batch.filesWithFrontmatter + 1]
           ELSE batch' = [batch EXCEPT
                              !.next = batch.next + 1,
                              !.filesWithFrontmatter = batch.filesWithFrontmatter + 1,
                              !.hasErrors = batch.hasErrors \/ Len(validation.value.errors) > 0,
                              !.output =
                                  Append(batch.output,
                                         IF Len(validation.value.errors) > 0
                                         THEN ScriptLine("invalid", file.path,
                                                         validation.value.errors, <<>>)
                                         ELSE IF Len(validation.value.warnings) > 0
                                         THEN ScriptLine("warnings", file.path, <<>>,
                                                         validation.value.warnings)
                                         ELSE ScriptLine("valid", file.path, <<>>, <<>>))]
    /\ ScriptUnchanged

\* After the loop: the summary and process.exit.
ScriptSummary ==
    /\ batch.pc = "loop"
    /\ batch.next > Len(batch.files)
    /\ batch' = [batch EXCEPT !.pc = "done",
                              !.exitCode = IF batch.hasErrors THEN 1 ELSE 0,
                              !.output = Append(batch.output,
                                                ScriptLine("summary", <<>>, <<>>, <<>>))]
    /\ ScriptUnchanged

NextScript ==
    \/ ScriptStart
    \/ ScriptIteration
    \/ ScriptSummary

SpecScript == InitScript /\ [][NextScript]_vars

-----------------------------------------------------------------------------
(* Claims about the script's batch (SpecScript) *)

ScriptDone == batch.pc = "done"

\* The script printed a line of its own for the file.
HasScriptLine(path) ==
    \E n \in 1..Len(batch.output) :
        /\ batch.output[n].file = path
        /\ batch.output[n].kind \in {"skipped", "no frontmatter", "invalid", "warnings", "valid"}

\* C25: no outcome of one file ends the batch of the validate-yaml script:
\* whatever a frontmatter block parses to (a mapping, nothing at all, a
\* scalar), the file gets its status line and the files after it are
\* processed, up to the summary.
C25_BatchGoesOn ==
    ScriptDone =>
        /\ ~batch.threw
        /\ \A n \in 1..Len(batch.files) : HasScriptLine(batch.files[n].path)
        /\ Len(batch.files) > 0 => batch.output[Len(batch.output)].kind = "summary"

====
